---- MODULE Spec2Model ----
(***************************************************************************)
(* Model of the fuzzy medicine-name resolver                               *)
(* (src/src/utils/fuzzyMedicineMatcher.js) and of the batch search         *)
(* endpoint that calls it (src/unnamed/part_004).                          *)
(*                                                                         *)
(* A JavaScript string is a sequence of one-character strings.  A          *)
(* JavaScript number that is a similarity or a threshold is an exact       *)
(* rational <<numerator, denominator>> with a positive denominator.        *)
(*                                                                         *)
(* A value the code computes once and reads several times (a local const,  *)
(* the value a loop updates) is bound by a quantifier over a one-element   *)
(* set, CHOOSE out \in {Rest(v) : v \in {Value}} : TRUE, so that the model   *)
(* computes it once as well, in the order the code computes it.            *)
(***************************************************************************)
EXTENDS Integers, Sequences, FiniteSets, TLC

(***************************************************************************)
(* Bounds of the model                                                     *)
(***************************************************************************)
\* longest string drawn for the similarity function
MaxLen == 3

(***************************************************************************)
(* Strings                                                                 *)
(***************************************************************************)
UpperChars == {"A","B","C","D","E","F","G","H","I","J","K","L","M",
               "N","O","P","Q","R","S","T","U","V","W","X","Y","Z"}

LowerOf == [c \in UpperChars |->
    CASE c = "A" -> "a" [] c = "B" -> "b" [] c = "C" -> "c" [] c = "D" -> "d"
      [] c = "E" -> "e" [] c = "F" -> "f" [] c = "G" -> "g" [] c = "H" -> "h"
      [] c = "I" -> "i" [] c = "J" -> "j" [] c = "K" -> "k" [] c = "L" -> "l"
      [] c = "M" -> "m" [] c = "N" -> "n" [] c = "O" -> "o" [] c = "P" -> "p"
      [] c = "Q" -> "q" [] c = "R" -> "r" [] c = "S" -> "s" [] c = "T" -> "t"
      [] c = "U" -> "u" [] c = "V" -> "v" [] c = "W" -> "w" [] c = "X" -> "x"
      [] c = "Y" -> "y" [] c = "Z" -> "z"]

\* String.prototype.toLowerCase on one character
LowerChar(c) == IF c \in UpperChars THEN LowerOf[c] ELSE c

\* String.prototype.toLowerCase
ToLower(s) ==
    CHOOSE out \in {[i \in 1..Len(v) |-> LowerChar(v[i])] : v \in {s}} : TRUE

IsSpace(c) == c = " "

\* the end of the longest run of characters of the set S that starts at p
RECURSIVE RunEnd(_, _, _)
RunEnd(s, p, S) == IF p <= Len(s) /\ s[p] \in S THEN RunEnd(s, p + 1, S) ELSE p

\* the start of the run of blanks that ends at position p (p + 1: no blank)
RECURSIVE RunStart(_, _)
RunStart(s, p) == IF p >= 1 /\ IsSpace(s[p]) THEN RunStart(s, p - 1) ELSE p + 1

TrimLeft(s) ==
    CHOOSE out \in {SubSeq(v, RunEnd(v, 1, {" "}), Len(v)) : v \in {s}} : TRUE

TrimRight(s) ==
    CHOOSE out \in {SubSeq(v, 1, RunStart(v, Len(v)) - 1) : v \in {s}} : TRUE

\* String.prototype.trim
Trim(s) == TrimRight(TrimLeft(s))

\* String.prototype.includes
Includes(s, sub) ==
    \E v \in {s}, w \in {sub} :
        \E i \in 0..(Len(v) - Len(w)) : SubSeq(v, i + 1, i + Len(w)) = w

\* all strings over the alphabet A of length at most n
RECURSIVE StringsUpTo(_, _)
StringsUpTo(A, n) ==
    IF n = 0 THEN {<<>>}
    ELSE LET shorter == StringsUpTo(A, n - 1)
         IN  shorter \cup {Append(s, c) : s \in shorter, c \in A}

(***************************************************************************)
(* Numbers: exact rationals                                                *)
(***************************************************************************)
Rat(n, d) == <<n, d>>
Zero == Rat(0, 1)
One == Rat(1, 1)
RatLe(x, y) == x[1] * y[2] <= y[1] * x[2]
RatLt(x, y) == x[1] * y[2] < y[1] * x[2]
RatEq(x, y) == x[1] * y[2] = y[1] * x[2]
RatMax(x, y) ==
    CHOOSE out \in {IF RatLe(a, b) THEN b ELSE a : a \in {x}, b \in {y}} : TRUE

Min2(x, y) == IF x <= y THEN x ELSE y
Max2(x, y) == IF x >= y THEN x ELSE y

(***************************************************************************)
(* levenshteinDistance: the matrix is filled row by row; row i holds       *)
(* matrix[i][0..len2] at the positions 1..len2+1 of a sequence.            *)
(***************************************************************************)
RECURSIVE LevRow(_, _, _, _, _)
LevRow(prev, c1, str2, subst, row) ==
    LET j == Len(row)
    IN  IF j > Len(str2) THEN row
        ELSE LET cost == IF LowerChar(c1) = LowerChar(str2[j]) THEN 0 ELSE subst
                 cell == Min2(Min2(prev[j + 1] + 1, row[j] + 1), prev[j] + cost)
             IN  CHOOSE out \in {LevRow(prev, c1, str2, subst, next) :
                                    next \in {Append(row, cell)}} : TRUE

RECURSIVE LevRows(_, _, _, _, _)
LevRows(str1, str2, subst, i, prev) ==
    IF i > Len(str1) THEN prev[Len(str2) + 1]
    ELSE CHOOSE out \in {LevRows(str1, str2, subst, i + 1, row) :
                            row \in {LevRow(prev, str1[i], str2, subst, <<i>>)}} : TRUE

levenshteinDistance(str1, str2) ==
    CHOOSE out \in {LevRows(a, b, 1, 1, [j \in 1..(Len(b) + 1) |-> j - 1]) :
                       a \in {str1}, b \in {str2}} : TRUE

(***************************************************************************)
(* calculateSimilarity                                                     *)
(***************************************************************************)
\* the variant that tests containment in one direction only
calculateSimilarityOneWay(str1, str2) ==
    IF str1 = <<>> \/ str2 = <<>> THEN Zero
    ELSE CHOOSE out \in
        {IF s1 = s2 THEN One
         ELSE IF Includes(s1, s2)
         THEN Rat(4 * Len(s2), 5 * Len(s1))
         ELSE LET maxLength == Max2(Len(s1), Len(s2))
              IN  IF maxLength = 0 THEN One
                  ELSE RatMax(Zero,
                         Rat(maxLength - levenshteinDistance(s1, s2), maxLength)) :
            s1 \in {Trim(ToLower(str1))}, s2 \in {Trim(ToLower(str2))}} : TRUE

\* the variant that divides the longer length by the shorter one
calculateSimilaritySwapped(str1, str2) ==
    IF str1 = <<>> \/ str2 = <<>> THEN Zero
    ELSE CHOOSE out \in
        {IF s1 = s2 THEN One
         ELSE IF Includes(s1, s2) \/ Includes(s2, s1)
         THEN LET longer == IF Len(s1) > Len(s2) THEN s1 ELSE s2
                  shorter == IF Len(s1) > Len(s2) THEN s2 ELSE s1
              IN  IF Len(shorter) = 0 THEN Zero
                  ELSE Rat(4 * Len(longer), 5 * Len(shorter))
         ELSE LET maxLength == Max2(Len(s1), Len(s2))
              IN  IF maxLength = 0 THEN One
                  ELSE RatMax(Zero,
                         Rat(maxLength - levenshteinDistance(s1, s2), maxLength)) :
            s1 \in {Trim(ToLower(str1))}, s2 \in {Trim(ToLower(str2))}} : TRUE

\* 0.8 * (shorter.length / longer.length) is the rational 4*shorter / 5*longer
calculateSimilarity(str1, str2) ==
    IF str1 = <<>> \/ str2 = <<>> THEN Zero
    ELSE CHOOSE out \in
        {IF s1 = s2 THEN One
         ELSE IF Includes(s1, s2) \/ Includes(s2, s1)
         THEN LET longer == IF Len(s1) > Len(s2) THEN s1 ELSE s2
                  shorter == IF Len(s1) > Len(s2) THEN s2 ELSE s1
              IN  Rat(4 * Len(shorter), 5 * Len(longer))
         ELSE LET maxLength == Max2(Len(s1), Len(s2))
              IN  IF maxLength = 0 THEN One
                  ELSE RatMax(Zero,
                         Rat(maxLength - levenshteinDistance(s1, s2), maxLength)) :
            s1 \in {Trim(ToLower(str1))}, s2 \in {Trim(ToLower(str2))}} : TRUE

(***************************************************************************)
(* String literals of the source and of the modelled inputs                *)
(***************************************************************************)
\* a value that is not a string: null or undefined
NULL == <<"#null">>
\* a value that is not a string and is truthy: a number
NUMBER == <<"#number">>
IsString(x) == x \notin {NULL, NUMBER}
\* JavaScript truthiness of a string-or-null value
Truthy(x) == x # NULL /\ x # <<>>

MEDICINE_SUFFIXES == <<
    <<"t","a","b","l","e","t">>, <<"t","a","b","l","e","t","s">>,
    <<"t","a","b">>, <<"t","a","b","s">>,
    <<"c","a","p","s","u","l","e">>, <<"c","a","p","s","u","l","e","s">>,
    <<"c","a","p">>, <<"c","a","p","s">>,
    <<"s","y","r","u","p">>, <<"s","u","s","p","e","n","s","i","o","n">>,
    <<"s","o","l","u","t","i","o","n">>,
    <<"i","n","j","e","c","t","i","o","n">>, <<"i","n","j">>,
    <<"c","r","e","a","m">>, <<"o","i","n","t","m","e","n","t">>, <<"g","e","l">>,
    <<"d","r","o","p","s">>, <<"d","r","o","p">>,
    <<"p","o","w","d","e","r">>, <<"g","r","a","n","u","l","e","s">>,
    <<"m","r">>, <<"s","r">>, <<"x","r">>, <<"e","r">>, <<"c","r">>,
    <<"l","a">>, <<"x","l">>, <<"d","s">> >>

\* the alternatives of the unit group of strengthPattern, in order
STRENGTH_UNITS == <<
    <<"m","g">>, <<"g","m">>, <<"m","l">>, <<"m","c","g">>,
    <<"g">>, <<"l">>, <<"i","u">>, <<"%">> >>

Digits == {"0","1","2","3","4","5","6","7","8","9"}

(***************************************************************************)
(* extractStrengthFromName                                                 *)
(***************************************************************************)
StartsWithAt(s, p, t) ==
    /\ p + Len(t) - 1 <= Len(s)
    /\ ToLower(SubSeq(s, p, p + Len(t) - 1)) = t

\* the first alternative of the unit group that matches at p (0: none)
RECURSIVE FirstUnitAt(_, _, _)
FirstUnitAt(s, p, k) ==
    IF k > Len(STRENGTH_UNITS) THEN 0
    ELSE IF StartsWithAt(s, p, STRENGTH_UNITS[k]) THEN k
    ELSE FirstUnitAt(s, p, k + 1)

\* \s*(mg|gm|ml|mcg|g|l|iu|%) anchored at q: the position after the match,
\* or 0 when there is none
UnitEnd(s, q) ==
    CHOOSE out \in
        {IF FirstUnitAt(s, b, 1) = 0 THEN 0
         ELSE b + Len(STRENGTH_UNITS[FirstUnitAt(s, b, 1)]) :
            b \in {RunEnd(s, q, {" "})}} : TRUE

\* (?:\.\d+) anchored at d: the position after the match, or 0 when there
\* is none
DecimalEnd(s, d) ==
    CHOOSE out \in
        {IF e > d + 1 THEN e ELSE 0 :
            e \in {IF d <= Len(s) /\ s[d] = "." THEN RunEnd(s, d + 1, Digits)
                   ELSE 0}} : TRUE

\* /(\d+(?:\.\d+)?)\s*(mg|gm|ml|mcg|g|l|iu|%)/i anchored at p: the position
\* after the match, or 0 when there is none.  Every quantifier is greedy and
\* giving back a digit or a blank can never let the rest match, so the two
\* ways the optional decimal part can go are the only ones to try, the one
\* with the decimal part first.
StrengthMatchEnd(s, p) ==
    CHOOSE out \in
        {IF d1 = p THEN 0
         ELSE CHOOSE end \in
                {IF withDec # 0 THEN withDec ELSE UnitEnd(s, d1) :
                    withDec \in {IF d2 = 0 THEN 0 ELSE UnitEnd(s, d2) :
                                    d2 \in {DecimalEnd(s, d1)}}} : TRUE :
            d1 \in {RunEnd(s, p, Digits)}} : TRUE

\* String.prototype.match with the g flag: the matches <<from, to>> from left
\* to right, each search resuming after the previous match
RECURSIVE StrengthMatches(_, _)
StrengthMatches(s, p) ==
    IF p > Len(s) THEN <<>>
    ELSE CHOOSE out \in
            {IF e = 0 THEN StrengthMatches(s, p + 1)
             ELSE <<<<p, e - 1>>>> \o StrengthMatches(s, e) :
                e \in {StrengthMatchEnd(s, p)}} : TRUE

\* String.prototype.replace(strengthPattern, ''): every match removed
RECURSIVE RemoveMatches(_, _, _)
RemoveMatches(s, ms, p) ==
    IF ms = <<>> THEN SubSeq(s, p, Len(s))
    ELSE SubSeq(s, p, ms[1][1] - 1) \o RemoveMatches(s, Tail(ms), ms[1][2] + 1)

\* /(mg|gm|ml|mcg|g|l|iu|%)/i on the dose: the leftmost position where an
\* alternative matches, and there the first alternative that does
RECURSIVE FirstUnitIn(_, _)
FirstUnitIn(s, p) ==
    IF p > Len(s) THEN NULL
    ELSE LET k == FirstUnitAt(s, p, 1)
         IN  IF k # 0 THEN STRENGTH_UNITS[k] ELSE FirstUnitIn(s, p + 1)

\* /(\d+(?:\.\d+)?)/ on the dose, which starts with a digit
FirstNumberIn(s) ==
    CHOOSE out \in
        {IF d1 = 1 THEN NULL
         ELSE IF DecimalEnd(s, d1) # 0 THEN SubSeq(s, 1, DecimalEnd(s, d1) - 1)
         ELSE SubSeq(s, 1, d1 - 1) :
            d1 \in {RunEnd(s, 1, Digits)}} : TRUE

\* the record with the name left as the replace returns it, untrimmed
ExtractedDoseUntrimmed(medicineName, match) ==
    CHOOSE out \in
        {[name |-> RemoveMatches(medicineName, match, 1),
          strength |-> FirstNumberIn(fullDose),
          unit |-> FirstUnitIn(fullDose, 1),
          fullDose |-> fullDose] :
            fullDose \in {Trim(ToLower(SubSeq(medicineName,
                                              match[1][1], match[1][2])))}} : TRUE

\* the record returned when the name holds the matches match
ExtractedDose(medicineName, match) ==
    CHOOSE out \in
        {[name |-> Trim(RemoveMatches(medicineName, match, 1)),
          strength |-> FirstNumberIn(fullDose),
          unit |-> FirstUnitIn(fullDose, 1),
          fullDose |-> fullDose] :
            fullDose \in {Trim(ToLower(SubSeq(medicineName,
                                              match[1][1], match[1][2])))}} : TRUE

extractStrengthFromName(medicineName) ==
    IF ~Truthy(medicineName)
    THEN [name |-> <<>>, strength |-> NULL, unit |-> NULL, fullDose |-> NULL]
    ELSE CHOOSE out \in
            {IF match # <<>>
             THEN ExtractedDose(medicineName, match)
             ELSE [name |-> Trim(medicineName), strength |-> NULL,
                   unit |-> NULL, fullDose |-> NULL] :
                match \in {StrengthMatches(medicineName, 1)}} : TRUE

(***************************************************************************)
(* removeSuffixes                                                          *)
(***************************************************************************)
\* cleaned.replace(new RegExp(`\\s+${suffix}\\s*$`, 'gi'), '')
StripSuffix(cleaned, suffix) ==
    CHOOSE out \in
        {LET at == Len(body) - Len(suffix) + 1
             ws == IF at >= 1 THEN RunStart(body, at - 1) ELSE 0
         IN  IF at >= 2 /\ StartsWithAt(body, at, suffix) /\ ws < at
             THEN SubSeq(body, 1, ws - 1)
             ELSE cleaned :
            body \in {TrimRight(cleaned)}} : TRUE

RECURSIVE StripSuffixes(_, _)
StripSuffixes(cleaned, k) ==
    IF k > Len(MEDICINE_SUFFIXES) THEN cleaned
    ELSE CHOOSE out \in {StripSuffixes(next, k + 1) :
                            next \in {StripSuffix(cleaned, MEDICINE_SUFFIXES[k])}} : TRUE

\* the variant that does not lower the case of the name first
removeSuffixesKeepingCase(name) ==
    IF ~Truthy(name) THEN <<>>
    ELSE CHOOSE out \in {Trim(StripSuffixes(cleaned, 1)) :
                            cleaned \in {Trim(name)}} : TRUE

removeSuffixes(name) ==
    IF ~Truthy(name) THEN <<>>
    ELSE CHOOSE out \in {Trim(StripSuffixes(cleaned, 1)) :
                            cleaned \in {Trim(ToLower(name))}} : TRUE

(***************************************************************************)
(* generateMedicineNameVariations                                          *)
(***************************************************************************)
Range(seq) == {seq[i] : i \in 1..Len(seq)}

\* Array.prototype.push in the place of Set.prototype.add
SetAddAgain(set, v) ==
    CHOOSE out \in {Append(members, x) : members \in {set}, x \in {v}} : TRUE

\* Set.prototype.add on a Set kept in insertion order
SetAdd(set, v) ==
    CHOOSE out \in {IF x \in Range(members) THEN members ELSE Append(members, x) :
                       members \in {set}, x \in {v}} : TRUE

RECURSIVE SetAddAll(_, _)
SetAddAll(set, vs) ==
    IF vs = <<>> THEN set
    ELSE CHOOSE out \in {SetAddAll(next, Tail(vs)) :
                            next \in {SetAdd(set, Head(vs))}} : TRUE

\* String.prototype.replace(/from/g, to) for a one-character pattern
ReplaceAll(s, from, to) == [i \in 1..Len(s) |-> IF s[i] = from THEN to ELSE s[i]]

HasAny(s, chars) == \E i \in 1..Len(s) : s[i] \in chars

\* the forms one base variant contributes, in the order they are added
OcrForms(base) ==
    CHOOSE out \in
        {(IF HasAny(lowerBase, {"o", "0"})
          THEN <<ReplaceAll(lowerBase, "o", "0"), ReplaceAll(lowerBase, "0", "o")>>
          ELSE <<>>)
         \o
         (IF HasAny(lowerBase, {"i", "1", "l"})
          THEN <<ReplaceAll(lowerBase, "i", "1"), ReplaceAll(lowerBase, "1", "i"),
                 ReplaceAll(lowerBase, "l", "i")>>
          ELSE <<>>)
         \o
         (IF HasAny(lowerBase, {"s", "5"})
          THEN <<ReplaceAll(lowerBase, "s", "5"), ReplaceAll(lowerBase, "5", "s")>>
          ELSE <<>>) :
            lowerBase \in {ToLower(base)}} : TRUE

RECURSIVE AddOcrForms(_, _)
AddOcrForms(set, bases) ==
    IF bases = <<>> THEN set
    ELSE CHOOSE out \in {AddOcrForms(next, Tail(bases)) :
                            next \in {SetAddAll(set, OcrForms(Head(bases)))}} : TRUE

\* the Set after the original name, the name without its dosage and the
\* name without its suffix have been added
BaseVariations(cleaned) ==
    CHOOSE out \in
        {IF withoutSuffix # <<>> /\ withoutSuffix # ToLower(cleaned)
         THEN SetAdd(v2, withoutSuffix) ELSE v2 :
            v2 \in {IF extracted.name # <<>> /\ extracted.name # cleaned
                    THEN SetAdd(SetAdd(v1, extracted.name), ToLower(extracted.name))
                    ELSE v1 :
                       v1 \in {SetAdd(SetAdd(<<>>, cleaned), ToLower(cleaned))},
                       extracted \in {extractStrengthFromName(cleaned)}},
            withoutSuffix \in {removeSuffixes(cleaned)}} : TRUE

generateMedicineNameVariations(medicineName) ==
    IF ~Truthy(medicineName) THEN <<>>
    ELSE CHOOSE out \in
            {SelectSeq(AddOcrForms(v3, SubSeq(v3, 1, Min2(3, Len(v3)))),
                       LAMBDA v : Len(v) >= 2) :
                v3 \in {BaseVariations(cleaned) : cleaned \in {Trim(medicineName)}}} :
            TRUE

(***************************************************************************)
(* The reference store: the table med_details and the three queries        *)
(***************************************************************************)
\* med_weightage IS NULL
NullWeight == -1000000

\* ORDER BY med_weightage DESC NULLS LAST: a sorts strictly before b
WeightBefore(a, b) ==
    IF a = NullWeight THEN FALSE
    ELSE IF b = NullWeight THEN TRUE
    ELSE a > b

\* s from position i on matches pat from position j on
RECURSIVE LikeMatchFrom(_, _, _, _)
LikeMatchFrom(s, i, pat, j) ==
    IF j > Len(pat) THEN i > Len(s)
    ELSE IF pat[j] = "%"
    THEN \E k \in i..(Len(s) + 1) : LikeMatchFrom(s, k, pat, j + 1)
    ELSE /\ i <= Len(s)
         /\ pat[j] = "_" \/ pat[j] = s[i]
         /\ LikeMatchFrom(s, i + 1, pat, j + 1)

\* s LIKE pat, with % for any run of characters and _ for any one character
LikeMatch(s, pat) ==
    \E a \in {s}, b \in {pat} : LikeMatchFrom(a, 1, b, 1)

\* the filter with the is_deactivated test left out
ActiveRowsIgnoringDeactivated(table) == {r \in table : r.is_active = 1}

\* WHERE md.is_active = 1 AND md.is_deactivated = 0, as every query has it
ActiveRows(table) == {r \in table : r.is_active = 1 /\ r.is_deactivated = 0}

RECURSIVE Perms(_)
Perms(S) ==
    IF S = {} THEN {<<>>}
    ELSE UNION {{<<r>> \o p : p \in Perms(S \ {r})} : r \in S}

\* the result sets a query may return: the selected rows in any order that
\* respects ORDER BY (rows that tie come in an order the store chooses),
\* cut to LIMIT; before holds the pairs <<a, b>> where a sorts strictly
\* before b
QueryResults(rows, before, limit) ==
    CHOOSE out \in
        {{SubSeq(p, 1, Min2(limit, Len(p))) :
             p \in {q \in Perms(selected) :
                      \A i, j \in 1..Len(q) : i < j => <<q[j], q[i]>> \notin earlier}} :
            selected \in {rows}, earlier \in {before}} : TRUE

\* the query of tryExactMatch comparing without LOWER
ExactQueryCaseSensitive(table, variant) ==
    CHOOSE out \in
        {QueryResults(rows,
             {<<a, b>> \in rows \X rows :
                 WeightBefore(a.med_weightage, b.med_weightage)},
             1) :
            rows \in {{r \in ActiveRows(table) : r.med_brand_name = variant}}} : TRUE

\* the query of tryExactMatch
ExactQuery(table, variant) ==
    CHOOSE out \in
        {QueryResults(rows,
             {<<a, b>> \in rows \X rows :
                 WeightBefore(a.med_weightage, b.med_weightage)},
             1) :
            rows \in {{r \in ActiveRows(table) : ToLower(r.med_brand_name) = v} :
                        v \in {ToLower(variant)}}} : TRUE

\* CASE ... END as match_score of the query of tryFuzzyLikeSearch
LikeMatchScore(brand, variant) ==
    CHOOSE out \in
        {IF b = v THEN 100
         ELSE IF LikeMatch(b, v \o <<"%">>) THEN 90
         ELSE IF LikeMatch(b, <<"%">> \o v \o <<"%">>) THEN 80
         ELSE 70 :
            b \in {ToLower(brand)}, v \in {ToLower(variant)}} : TRUE

\* the query without its LIKE condition: every active row is returned
FuzzyQueryEveryRow(table, variant, maxResults) ==
    CHOOSE out \in
        {QueryResults(rows,
             {<<a, b>> \in rows \X rows :
                 \/ a.match_score > b.match_score
                 \/ /\ a.match_score = b.match_score
                    /\ WeightBefore(a.row.med_weightage, b.row.med_weightage)},
             maxResults) :
            rows \in {{[row |-> r,
                        match_score |-> LikeMatchScore(r.med_brand_name, variant)] :
                         r \in ActiveRows(table)}}} :
        TRUE

\* the query of tryFuzzyLikeSearch; each row carries its match_score
FuzzyQuery(table, variant, maxResults) ==
    CHOOSE out \in
        {QueryResults(rows,
             {<<a, b>> \in rows \X rows :
                 \/ a.match_score > b.match_score
                 \/ /\ a.match_score = b.match_score
                    /\ WeightBefore(a.row.med_weightage, b.row.med_weightage)},
             maxResults) :
            rows \in {{[row |-> r,
                        match_score |-> LikeMatchScore(r.med_brand_name, variant)] :
                         r \in {x \in ActiveRows(table) :
                                  LikeMatch(ToLower(x.med_brand_name),
                                            <<"%">> \o ToLower(variant) \o <<"%">>)}}}} :
        TRUE

(***************************************************************************)
(* pg_trgm, the store's trigram extension used by the composition query    *)
(***************************************************************************)
AlnumChars == Digits \cup UpperChars \cup {LowerOf[c] : c \in UpperChars}

\* the words of a string: its maximal runs of letters and digits
RECURSIVE WordsOf(_, _)
WordsOf(s, p) ==
    IF p > Len(s) THEN {}
    ELSE IF s[p] \notin AlnumChars THEN WordsOf(s, p + 1)
    ELSE LET e == RunEnd(s, p, AlnumChars)
         IN  {SubSeq(s, p, e - 1)} \cup WordsOf(s, e)

\* the trigrams of a word padded with two blanks before and one after
WordTrigrams(w) ==
    LET padded == <<" ", " ">> \o w \o <<" ">>
    IN  {SubSeq(padded, i, i + 2) : i \in 1..(Len(padded) - 2)}

Trigrams(s) ==
    UNION {WordTrigrams(w) : w \in UNION {WordsOf(lower, 1) : lower \in {ToLower(s)}}}

\* similarity(a, b): shared trigrams over all trigrams
TrgmSimilarity(a, b) ==
    CHOOSE out \in
        {IF ta = {} \/ tb = {} THEN Zero
         ELSE Rat(Cardinality(ta \cap tb), Cardinality(ta \cup tb)) :
            ta \in {Trigrams(a)}, tb \in {Trigrams(b)}} : TRUE

\* pg_trgm.similarity_threshold, 0.3 unless the session sets it
TrgmThreshold == Rat(3, 10)

\* a % b; a NULL operand gives NULL, which no WHERE or WHEN accepts
TrgmSimilar(a, b) ==
    a # NULL /\ b # NULL /\ RatLe(TrgmThreshold, TrgmSimilarity(a, b))

\* GREATEST(similarity(LOWER(COALESCE(name_i, '')), LOWER($1)), ...)
RECURSIVE RatMaxOver(_, _)
RatMaxOver(xs, n) ==
    IF n = 0 THEN Zero ELSE RatMax(xs[n], RatMaxOver(xs, n - 1))

CompSimilarity(r, name) ==
    CHOOSE out \in
        {RatMaxOver(xs, Len(xs)) :
            xs \in {[i \in 1..Len(r.compositions) |->
                       IF r.compositions[i].name = NULL THEN Zero
                       ELSE TrgmSimilarity(r.compositions[i].name, name)]}} : TRUE

NameSlotMatch(r, name) ==
    \E i \in 1..Len(r.compositions) : TrgmSimilar(r.compositions[i].name, name)

\* the CASE without its WHEN branches on strength and unit
CompMatchScoreNameOnly(r, name, strength, unit) ==
    IF NameSlotMatch(r, name) THEN 80 ELSE 70

\* CASE ... END as comp_match_score of the query with strength matching
CompMatchScore(r, name, strength, unit) ==
    IF \E i \in 1..Len(r.compositions) :
           /\ TrgmSimilar(r.compositions[i].name, name)
           /\ r.compositions[i].strength = strength
           /\ r.compositions[i].unit # NULL
           /\ ToLower(r.compositions[i].unit) = ToLower(unit)
    THEN 100
    ELSE IF NameSlotMatch(r, name) THEN 80
    ELSE 70

\* comp_match_score is not a column of the query without strength matching
NoColumn == 0

\* the query of tryCompositionSearch; each row carries comp_similarity and,
\* when the salt has a strength and a unit, comp_match_score
CompositionQuery(table, salt, maxResults) ==
    CHOOSE out \in
        {QueryResults(rows,
             {<<a, b>> \in rows \X rows :
                 \/ a.comp_match_score > b.comp_match_score
                 \/ /\ a.comp_match_score = b.comp_match_score
                    /\ RatLt(b.comp_similarity, a.comp_similarity)
                 \/ /\ a.comp_match_score = b.comp_match_score
                    /\ RatEq(a.comp_similarity, b.comp_similarity)
                    /\ WeightBefore(a.row.med_weightage, b.row.med_weightage)},
             maxResults) :
            rows \in
                {LET withStrength ==
                         Truthy(extracted.strength) /\ Truthy(extracted.unit)
                     name == IF extracted.name # <<>> THEN extracted.name ELSE salt
                 IN  {[row |-> r,
                       comp_similarity |-> CompSimilarity(r, name),
                       comp_match_score |->
                           IF withStrength
                           THEN CompMatchScore(r, name, extracted.strength,
                                               extracted.unit)
                           ELSE NoColumn] :
                        r \in {x \in ActiveRows(table) : NameSlotMatch(x, name)}} :
                    extracted \in {extractStrengthFromName(salt)}}} : TRUE

(***************************************************************************)
(* formatMedicineResult, buildDoseString                                   *)
(***************************************************************************)
buildDoseString(strength, unit) ==
    IF Truthy(strength) /\ Truthy(unit) THEN strength \o unit ELSE NULL

\* the fields of the formatted record that the resolver or its callers read;
\* price, manufacturer, pack size and type are copied through unread
formatMedicineResult(medicine) ==
    [med_drug_id |-> medicine.med_id,
     drug_name |-> medicine.med_brand_name,
     compositions |->
         [i \in 1..Len(medicine.compositions) |->
             [name |-> medicine.compositions[i].name,
              strength |-> medicine.compositions[i].strength,
              unit |-> medicine.compositions[i].unit,
              dose |-> buildDoseString(medicine.compositions[i].strength,
                                       medicine.compositions[i].unit)]],
     med_weightage |-> medicine.med_weightage]

\* no match: the key is absent from the result
NoMedicine ==
    [med_drug_id |-> 0, drug_name |-> NULL, compositions |-> <<>>,
     med_weightage |-> NullWeight]

(***************************************************************************)
(* The ranking of fuzzySearchMedicine                                      *)
(***************************************************************************)
\* med_weightage || 0
WeightOrZero(w) == IF w = NullWeight THEN 0 ELSE w

\* the comparator that also puts a before b when the three keys tie
SortsBeforeOrTies(a, b) ==
    IF b.matchScore # a.matchScore THEN b.matchScore - a.matchScore < 0
    ELSE IF ~RatEq(b.similarity, a.similarity) THEN RatLt(b.similarity, a.similarity)
    ELSE WeightOrZero(b.medicine.med_weightage)
            - WeightOrZero(a.medicine.med_weightage) <= 0

\* the comparator handed to Array.prototype.sort is negative: a goes first
SortsBefore(a, b) ==
    IF b.matchScore # a.matchScore THEN b.matchScore - a.matchScore < 0
    ELSE IF ~RatEq(b.similarity, a.similarity) THEN RatLt(b.similarity, a.similarity)
    ELSE WeightOrZero(b.medicine.med_weightage)
            - WeightOrZero(a.medicine.med_weightage) < 0

\* x placed after every element it does not sort before
RECURSIVE InsertStable(_, _, _)
InsertStable(sorted, n, x) ==
    IF n = 0 THEN <<x>> \o sorted
    ELSE IF SortsBefore(x, sorted[n])
    THEN InsertStable(sorted, n - 1, x)
    ELSE SubSeq(sorted, 1, n) \o <<x>> \o SubSeq(sorted, n + 1, Len(sorted))

\* the first n elements of cs, sorted
RECURSIVE SortFirst(_, _)
SortFirst(cs, n) ==
    IF n = 0 THEN <<>>
    ELSE CHOOSE out \in {InsertStable(sorted, n - 1, cs[n]) :
                            sorted \in {SortFirst(cs, n - 1)}} : TRUE

\* Array.prototype.sort, which is stable
SortCandidates(cs) ==
    CHOOSE out \in {SortFirst(c, Len(c)) : c \in {cs}} : TRUE

(***************************************************************************)
(* Inputs of the model                                                     *)
(***************************************************************************)
sParacetamol == <<"P","a","r","a","c","e","t","a","m","o","l">>
sParacetmol == <<"P","a","r","a","c","e","t","m","o","l">>
sparacetamol == <<"p","a","r","a","c","e","t","a","m","o","l">>
sDolo == <<"D","o","l","o">>
sdolo == <<"d","o","l","o">>
sDOLO == <<"D","O","L","O">>
sDoloPadded == <<" ","d","O","L","O"," ">>
sDol == <<"D","o","l">>
sD0lo == <<"D","0","l","o">>
sDolopar == <<"D","o","l","o","p","a","r">>
sCrocin == <<"C","r","o","c","i","n">>
sA == <<"a">>
sAPadded == <<" ","a"," ">>
sAA == <<"a","a">>
sPar == <<"p","a","r">>
s500 == <<"5","0","0">>
s650 == <<"6","5","0">>
smg == <<"m","g">>
sMG == <<"M","G">>
sSaltExact == sParacetamol \o <<" ">> \o s500 \o smg
sSaltTypo == sParacetmol

Slot(n, st, u) == [name |-> n, strength |-> st, unit |-> u]

\* the rows a catalog is drawn from
RowPool == {
    [med_id |-> 1, med_brand_name |-> sParacetamol, is_active |-> 1,
     is_deactivated |-> 0, med_weightage |-> 10,
     compositions |-> <<Slot(sparacetamol, s500, sMG)>>],
    [med_id |-> 2, med_brand_name |-> sDolo, is_active |-> 1,
     is_deactivated |-> 0, med_weightage |-> NullWeight,
     compositions |-> <<Slot(sParacetamol, s650, smg)>>],
    [med_id |-> 3, med_brand_name |-> sdolo, is_active |-> 1,
     is_deactivated |-> 1, med_weightage |-> 20,
     compositions |-> <<Slot(sparacetamol, s500, smg)>>],
    [med_id |-> 4, med_brand_name |-> sParacetamol, is_active |-> 0,
     is_deactivated |-> 0, med_weightage |-> 30,
     compositions |-> <<Slot(sparacetamol, s500, smg)>>],
    [med_id |-> 5, med_brand_name |-> sDolopar, is_active |-> 1,
     is_deactivated |-> 0, med_weightage |-> 0,
     compositions |-> <<Slot(NULL, NULL, NULL), Slot(sparacetamol, s500, smg)>>],
    [med_id |-> 6, med_brand_name |-> sDOLO, is_active |-> 1,
     is_deactivated |-> 0, med_weightage |-> -7,
     compositions |-> <<>>],
    [med_id |-> 7, med_brand_name |-> sA, is_active |-> 1,
     is_deactivated |-> 0, med_weightage |-> 1,
     compositions |-> <<>>] }

\* most rows of a catalog
MaxCatalog == 2

Catalogs == {c \in SUBSET RowPool : Cardinality(c) <= MaxCatalog}

\* the names a search is called with
Names == {NULL, NUMBER, <<>>, sA, sAPadded, sAA, sPar, sParacetmol, sparacetamol,
          sDoloPadded, sDol, sD0lo, sCrocin}

\* the values of options.includeSalt
Salts == {NULL, sSaltExact, sSaltTypo}

\* the values of options.minSimilarity
Thresholds == {Zero, Rat(3, 10), Rat(7, 10), One}

\* the values of options.maxResults
Limits == {1, 5}

\* most store queries of one resolution that fail
MaxFailures == 1

\* most items of a batch
MaxBatch == 3

\* the items a batch is drawn from
Items == {
    [medicine_name |-> sparacetamol, medicine_salt |-> NULL],
    [medicine_name |-> sA, medicine_salt |-> NULL],
    [medicine_name |-> NULL, medicine_salt |-> sSaltExact],
    [medicine_name |-> sCrocin, medicine_salt |-> sSaltExact] }

RECURSIVE SeqsUpTo(_, _)
SeqsUpTo(S, n) ==
    IF n = 0 THEN {<<>>}
    ELSE LET shorter == SeqsUpTo(S, n - 1)
         IN  shorter \cup {Append(q, x) : q \in shorter, x \in S}

\* the catalogs a batch runs against
BatchCatalogs == {c \in Catalogs : \A r \in c : r.med_id \in {1, 5}}

(***************************************************************************)
(* State                                                                   *)
(***************************************************************************)
VARIABLES
    str1, str2,     \* the arguments of a call of calculateSimilarity
    simOut,         \* its return value
    simPc,          \* "call" before the call, "return" after it
    catalog,        \* the rows of med_details
    medicineName,   \* fuzzySearchMedicine: its first argument
    minSimilarity, maxResults, includeSalt, preferExactMatch,   \* its options
    pc,             \* where the resolution stands: "call", "exact", "fuzzy",
                    \* "composition" (each waiting on a store query), "done"
    variations,     \* the list generateMedicineNameVariations returned
    vi,             \* the variant the running strategy is at
    fuzzyResults,   \* the candidates collected so far; sorted by Step 5
    collected,      \* the same candidates, in the order they were collected
    result,         \* the value returned
    queryLog,       \* the store queries issued so far, with their outcome
    medicines,      \* batchFuzzySearch: its first argument when an array
    medicinesKind,  \* "array", or "missing" / "notArray" for other values
    batchOptions,   \* batchFuzzySearch: its options
    bi,             \* the loop index i
    results,        \* the entries pushed so far
    bpc,            \* "idle", "call", "loop" (waiting on an item), "done"
    reqMinSimilarity, reqMaxResults,    \* req.body of batchSearchMedicines
    epc,            \* the endpoint: "idle", "request", "await", "responded"
    response,       \* what the endpoint answered
    nameIn,         \* the argument of a call of a name helper
    extracted,      \* what extractStrengthFromName returned
    nameVariations, \* what generateMedicineNameVariations returned
    namePc,         \* "idle", "call", "extracted", "generated"
    waiting,        \* the locals of a second call, suspended at an await
    running         \* which of the two calls holds the variables above: 1, 2

simVars == <<str1, str2, simOut, simPc>>
searchVars == <<catalog, medicineName, minSimilarity, maxResults, includeSalt,
                preferExactMatch, pc, variations, vi, fuzzyResults, collected,
                result,
                queryLog>>
batchVars == <<medicines, medicinesKind, batchOptions, bi, results, bpc>>
endpointVars == <<reqMinSimilarity, reqMaxResults, epc, response>>
nameVars == <<nameIn, extracted, nameVariations, namePc>>
concVars == <<waiting, running>>
vars == <<simVars, searchVars, batchVars, endpointVars, nameVars, concVars>>

\* the result before the function has returned
NoResult ==
    [success |-> FALSE, message |-> "", confidence |-> Zero,
     match |-> NoMedicine, matchType |-> "", searchTerm |-> NULL]

ValidationFailure ==
    [success |-> FALSE,
     message |-> "Medicine name must be at least 2 characters long",
     confidence |-> Zero,
     match |-> NoMedicine, matchType |-> "", searchTerm |-> NULL]

\* the no-match failure that still says of what type the best candidate was
NoMatchFailureKeepingType ==
    [success |-> FALSE, message |-> "No matching medicine found",
     confidence |-> Zero,
     match |-> NoMedicine, matchType |-> "fuzzy", searchTerm |-> NULL]

NoMatchFailure ==
    [success |-> FALSE, message |-> "No matching medicine found",
     confidence |-> Zero,
     match |-> NoMedicine, matchType |-> "", searchTerm |-> NULL]

NoResponse ==
    [status |-> "", code |-> 0, message |-> "", index |-> -1,
     total_searched |-> 0, total_found |-> 0, results |-> <<>>]

DefaultOptions ==
    [minSimilarity |-> Rat(7, 10), maxResults |-> 5, preferExactMatch |-> TRUE]

SearchIdle ==
    /\ catalog = {}
    /\ medicineName = NULL
    /\ minSimilarity = Zero
    /\ maxResults = 0
    /\ includeSalt = NULL
    /\ preferExactMatch = FALSE
    /\ pc = "idle"
    /\ variations = <<>>
    /\ vi = 0
    /\ fuzzyResults = <<>>
    /\ collected = <<>>
    /\ result = NoResult
    /\ queryLog = <<>>

SimIdle ==
    /\ str1 = <<>>
    /\ str2 = <<>>
    /\ simOut = Zero
    /\ simPc = "idle"

BatchIdle ==
    /\ medicines = <<>>
    /\ medicinesKind = "array"
    /\ batchOptions = DefaultOptions
    /\ bi = 0
    /\ results = <<>>
    /\ bpc = "idle"

EndpointIdle ==
    /\ reqMinSimilarity = Zero
    /\ reqMaxResults = 0
    /\ epc = "idle"
    /\ response = NoResponse

\* extracted before extractStrengthFromName has returned
NoExtract == [name |-> <<>>, strength |-> NULL, unit |-> NULL, fullDose |-> NULL]

NameIdle ==
    /\ nameIn = <<>>
    /\ extracted = NoExtract
    /\ nameVariations = <<>>
    /\ namePc = "idle"

\* the locals of a call that was never made
NoCall ==
    [medicineName |-> NULL, minSimilarity |-> Zero, maxResults |-> 0,
     includeSalt |-> NULL, preferExactMatch |-> FALSE, pc |-> "idle",
     variations |-> <<>>, vi |-> 0, fuzzyResults |-> <<>>, collected |-> <<>>,
     result |-> NoResult, queryLog |-> <<>>,
     medicines |-> <<>>, medicinesKind |-> "array",
     batchOptions |-> DefaultOptions, bi |-> 0, results |-> <<>>, bpc |-> "idle"]

ConcIdle ==
    /\ waiting = NoCall
    /\ running = 1

(***************************************************************************)
(* SpecSim: calculateSimilarity on every pair of bounded strings           *)
(***************************************************************************)
SimAlphabet == {"a", "b", "A", " "}

SimInit ==
    /\ str1 \in StringsUpTo(SimAlphabet, MaxLen)
    /\ str2 \in StringsUpTo(SimAlphabet, MaxLen)
    /\ simOut = Zero
    /\ simPc = "call"
    /\ SearchIdle
    /\ BatchIdle
    /\ EndpointIdle
    /\ NameIdle
    /\ ConcIdle

CallSimilarity ==
    /\ simPc = "call"
    /\ simOut' = calculateSimilarity(str1, str2)
    /\ simPc' = "return"
    /\ UNCHANGED <<str1, str2, searchVars, batchVars, endpointVars, nameVars, concVars>>

SimNext == CallSimilarity

SpecSim == SimInit /\ [][SimNext]_vars

(***************************************************************************)
(* fuzzySearchMedicine                                                     *)
(***************************************************************************)
\* the validation without the trim
NameTooShortUntrimmed(name) == ~Truthy(name) \/ ~IsString(name) \/ Len(name) < 2

\* the validation of the name
NameTooShort(name) == ~Truthy(name) \/ ~IsString(name) \/ Len(Trim(name)) < 2

\* the threshold test turned around
BelowThreshold(similarity, threshold) == RatLe(similarity, threshold)

\* the threshold test on the best candidate
MeetsThreshold(similarity, threshold) == RatLe(threshold, similarity)

\* Step 5 returning the first candidate of the ranking that meets the
\* threshold
ArbitrateFirstToMeet(candidates) ==
    \E sorted \in {SortCandidates(candidates)} :
       LET meeting == {i \in 1..Len(sorted) :
                         MeetsThreshold(sorted[i].similarity, minSimilarity)}
           bestMatch == sorted[CHOOSE i \in meeting : \A j \in meeting : i <= j]
       IN
        /\ fuzzyResults' = sorted
        /\ collected' = candidates
        /\ pc' = "done"
        /\ vi' = 0
        /\ result' =
             IF meeting # {}
             THEN [success |-> TRUE, message |-> "",
                   confidence |-> bestMatch.similarity,
                   match |-> bestMatch.medicine,
                   matchType |-> IF bestMatch.matchScore = 100
                                 THEN "exact-composition" ELSE "fuzzy",
                   searchTerm |-> bestMatch.searchTerm]
             ELSE NoMatchFailure

\* Step 5: sort and return the best match, or no match
Arbitrate(candidates) ==
    \E sorted \in {SortCandidates(candidates)} :
       LET bestMatch == sorted[1]
       IN
        /\ fuzzyResults' = sorted
        /\ collected' = candidates
        /\ pc' = "done"
        /\ vi' = 0
        /\ result' =
             IF sorted # <<>> /\ MeetsThreshold(bestMatch.similarity, minSimilarity)
             THEN [success |-> TRUE, message |-> "",
                   confidence |-> bestMatch.similarity,
                   match |-> bestMatch.medicine,
                   matchType |-> IF bestMatch.matchScore = 100
                                 THEN "exact-composition" ELSE "fuzzy",
                   searchTerm |-> bestMatch.searchTerm]
             ELSE NoMatchFailure

\* Step 4 without the test on the candidates of the fuzzy strategy
AfterFuzzyWithAnySalt(candidates) ==
    IF Truthy(includeSalt)
    THEN /\ pc' = "composition"
         /\ vi' = 0
         /\ fuzzyResults' = candidates
         /\ collected' = candidates
         /\ UNCHANGED result
    ELSE Arbitrate(candidates)

\* tryFuzzyLikeSearch has tried its last variant: Step 4 and Step 5
AfterFuzzy(candidates) ==
    IF Truthy(includeSalt) /\ Len(candidates) = 0
    THEN /\ pc' = "composition"
         /\ vi' = 0
         /\ fuzzyResults' = candidates
         /\ collected' = candidates
         /\ UNCHANGED result
    ELSE Arbitrate(candidates)

\* the rest of the call: everything but the state of the resolution
SearchFrame ==
    UNCHANGED <<catalog, medicineName, minSimilarity, maxResults, includeSalt,
                preferExactMatch, simVars, batchVars, endpointVars, nameVars, concVars>>

\* the call up to its first store query; a loop over no variant ends at once
CallFuzzySearch ==
    /\ pc = "call"
    /\ IF NameTooShort(medicineName)
       THEN /\ result' = ValidationFailure
            /\ pc' = "done"
            /\ UNCHANGED <<variations, vi, fuzzyResults, collected>>
       ELSE \E generated \in {generateMedicineNameVariations(medicineName)} :
                /\ variations' = generated
                /\ IF generated = <<>>
                   THEN AfterFuzzy(<<>>)
                   ELSE /\ pc' = IF preferExactMatch THEN "exact" ELSE "fuzzy"
                        /\ vi' = 1
                        /\ UNCHANGED <<result, fuzzyResults, collected>>
    /\ UNCHANGED queryLog
    /\ SearchFrame

Logged(strategy, term, ok) ==
    Append(queryLog, [strategy |-> strategy, term |-> term, ok |-> ok])

FailuresSoFar == Cardinality({i \in 1..Len(queryLog) : ~queryLog[i].ok})

\* tryExactMatch moves to its next variant, or returns null and
\* tryFuzzyLikeSearch starts
ExactMiss ==
    /\ IF vi < Len(variations)
       THEN vi' = vi + 1 /\ pc' = "exact"
       ELSE vi' = 1 /\ pc' = "fuzzy"
    /\ UNCHANGED <<result, fuzzyResults, collected>>

\* the variant in which the error leaves tryExactMatch and ends the resolution
ExactQueryFailsAborting ==
    /\ pc = "exact"
    /\ FailuresSoFar < MaxFailures
    /\ queryLog' = Logged("exact", variations[vi], FALSE)
    /\ pc' = "done"
    /\ vi' = 0
    /\ result' = NoMatchFailure
    /\ UNCHANGED <<variations, fuzzyResults, collected>>
    /\ SearchFrame

\* tryExactMatch: the query of the variant throws
ExactQueryFails ==
    /\ pc = "exact"
    /\ FailuresSoFar < MaxFailures
    /\ queryLog' = Logged("exact", variations[vi], FALSE)
    /\ ExactMiss
    /\ UNCHANGED variations
    /\ SearchFrame

\* the variant that reports the name as it was given for searchTerm
ExactQueryReturnsGivenName ==
    /\ pc = "exact"
    /\ queryLog' = Logged("exact", variations[vi], TRUE)
    /\ \E rows \in ExactQuery(catalog, variations[vi]) :
          IF Len(rows) > 0
          THEN /\ result' = [success |-> TRUE, message |-> "",
                             confidence |-> One,
                             match |-> formatMedicineResult(rows[1]),
                             matchType |-> "exact",
                             searchTerm |-> medicineName]
               /\ pc' = "done"
               /\ vi' = 0
               /\ UNCHANGED <<fuzzyResults, collected>>
          ELSE ExactMiss
    /\ UNCHANGED variations
    /\ SearchFrame

\* tryExactMatch: the query of the variant returns its rows
ExactQueryReturns ==
    /\ pc = "exact"
    /\ queryLog' = Logged("exact", variations[vi], TRUE)
    /\ \E rows \in ExactQuery(catalog, variations[vi]) :
          IF Len(rows) > 0
          THEN /\ result' = [success |-> TRUE, message |-> "",
                             confidence |-> One,
                             match |-> formatMedicineResult(rows[1]),
                             matchType |-> "exact",
                             searchTerm |-> variations[vi]]
               /\ pc' = "done"
               /\ vi' = 0
               /\ UNCHANGED <<fuzzyResults, collected>>
          ELSE ExactMiss
    /\ UNCHANGED variations
    /\ SearchFrame

FuzzyAdvance(candidates) ==
    IF vi < Len(variations)
    THEN /\ vi' = vi + 1
         /\ pc' = "fuzzy"
         /\ fuzzyResults' = candidates
         /\ collected' = candidates
         /\ UNCHANGED result
    ELSE AfterFuzzy(candidates)

\* tryFuzzyLikeSearch: the query of the variant throws
FuzzyQueryFails ==
    /\ pc = "fuzzy"
    /\ FailuresSoFar < MaxFailures
    /\ queryLog' = Logged("fuzzy", variations[vi], FALSE)
    /\ FuzzyAdvance(fuzzyResults)
    /\ UNCHANGED variations
    /\ SearchFrame

\* tryFuzzyLikeSearch: the query of the variant returns its rows
FuzzyQueryReturns ==
    /\ pc = "fuzzy"
    /\ queryLog' = Logged("fuzzy", variations[vi], TRUE)
    /\ \E rows \in FuzzyQuery(catalog, variations[vi], maxResults) :
       \E found \in {[i \in 1..Len(rows) |->
                        [medicine |-> formatMedicineResult(rows[i].row),
                         similarity |-> calculateSimilarity(variations[vi],
                                            rows[i].row.med_brand_name),
                         matchScore |-> rows[i].match_score,
                         searchTerm |-> variations[vi]]]} :
          FuzzyAdvance(fuzzyResults \o found)
    /\ UNCHANGED variations
    /\ SearchFrame

\* the variant that issues the composition query again after a failure
CompositionQueryFailsRetrying ==
    /\ pc = "composition"
    /\ FailuresSoFar < MaxFailures
    /\ queryLog' = Logged("composition", includeSalt, FALSE)
    /\ UNCHANGED <<pc, vi, fuzzyResults, collected, result, variations>>
    /\ SearchFrame

\* tryCompositionSearch: the query throws
CompositionQueryFails ==
    /\ pc = "composition"
    /\ FailuresSoFar < MaxFailures
    /\ queryLog' = Logged("composition", includeSalt, FALSE)
    /\ Arbitrate(fuzzyResults)
    /\ UNCHANGED variations
    /\ SearchFrame

\* tryCompositionSearch: the query returns its rows
CompositionQueryReturns ==
    /\ pc = "composition"
    /\ queryLog' = Logged("composition", includeSalt, TRUE)
    /\ \E rows \in CompositionQuery(catalog, includeSalt, maxResults) :
       \E compositionResults \in
             {[i \in 1..Len(rows) |->
                 [medicine |-> formatMedicineResult(rows[i].row),
                  similarity |-> IF RatEq(rows[i].comp_similarity, Zero)
                                 THEN Rat(7, 10) ELSE rows[i].comp_similarity,
                  matchScore |-> IF rows[i].comp_match_score = NoColumn
                                 THEN 80 ELSE rows[i].comp_match_score,
                  searchTerm |-> includeSalt]]} :
          Arbitrate(fuzzyResults \o compositionResults)
    /\ UNCHANGED variations
    /\ SearchFrame

\* one call of fuzzySearchMedicine on every drawn name, options and catalog
Init ==
    /\ SimIdle
    /\ BatchIdle
    /\ EndpointIdle
    /\ NameIdle
    /\ ConcIdle
    /\ catalog \in Catalogs
    /\ medicineName \in Names
    /\ minSimilarity \in Thresholds
    /\ maxResults \in Limits
    /\ includeSalt \in Salts
    /\ preferExactMatch \in BOOLEAN
    /\ pc = "call"
    /\ variations = <<>>
    /\ vi = 0
    /\ fuzzyResults = <<>>
    /\ collected = <<>>
    /\ result = NoResult
    /\ queryLog = <<>>

Next ==
    \/ CallFuzzySearch
    \/ ExactQueryFails
    \/ ExactQueryReturns
    \/ FuzzyQueryFails
    \/ FuzzyQueryReturns
    \/ CompositionQueryFails
    \/ CompositionQueryReturns

Spec == Init /\ [][Next]_vars

(***************************************************************************)
(* batchFuzzySearch                                                        *)
(***************************************************************************)
\* the call of fuzzySearchMedicine for one item: the batch options with the
\* item's salt as includeSalt
StartItem(medicine) ==
    /\ medicineName' = medicine.medicine_name
    /\ minSimilarity' = batchOptions.minSimilarity
    /\ maxResults' = batchOptions.maxResults
    /\ preferExactMatch' = batchOptions.preferExactMatch
    /\ includeSalt' = medicine.medicine_salt
    /\ pc' = "call"
    /\ variations' = <<>>
    /\ vi' = 0
    /\ fuzzyResults' = <<>>
    /\ collected' = <<>>
    /\ result' = NoResult

\* the entry with the position in the log line, i + 1, for index
BatchEntryOneBased(medicine, searchResult, i) ==
    [original |-> medicine, searchResult |-> searchResult, index |-> i + 1]

\* the entry pushed for item i
BatchEntry(medicine, searchResult, i) ==
    [original |-> medicine, searchResult |-> searchResult, index |-> i]

\* the call up to the first item's resolution
BatchStart ==
    /\ bpc = "call"
    /\ results' = <<>>
    /\ bi' = 0
    /\ IF medicinesKind # "array" \/ Len(medicines) = 0
       THEN /\ bpc' = "done"
            /\ UNCHANGED <<medicineName, minSimilarity, maxResults,
                           preferExactMatch, includeSalt, pc, variations, vi,
                           fuzzyResults, collected, result>>
       ELSE /\ bpc' = "loop"
            /\ StartItem(medicines[1])
    /\ UNCHANGED <<catalog, queryLog, medicines, medicinesKind, batchOptions,
                   simVars, endpointVars, nameVars, concVars>>

\* an item's resolution has returned: push its entry, go on with the next
BatchCollect ==
    /\ bpc = "loop"
    /\ pc = "done"
    /\ results' = Append(results, BatchEntry(medicines[bi + 1], result, bi))
    /\ bi' = bi + 1
    /\ IF bi + 1 < Len(medicines)
       THEN /\ bpc' = "loop"
            /\ StartItem(medicines[bi + 2])
       ELSE /\ bpc' = "done"
            /\ UNCHANGED <<medicineName, minSimilarity, maxResults,
                           preferExactMatch, includeSalt, pc, variations, vi,
                           fuzzyResults, collected, result>>
    /\ UNCHANGED <<catalog, queryLog, medicines, medicinesKind, batchOptions,
                   simVars, endpointVars, nameVars, concVars>>

(***************************************************************************)
(* batchSearchMedicines, the endpoint                                      *)
(***************************************************************************)
\* the largest batch the endpoint accepts
MaxBatchSize == 100

\* the largest maxResults the endpoint accepts
MaxResultsPerItem == 20

\* the check of an item that tests only that the name is given
ItemRejectedIfNameless(medicine) == ~Truthy(medicine.medicine_name)

\* the two checks of an item in the validation loop
ItemRejected(medicine) ==
    \/ ~Truthy(medicine.medicine_name)
    \/ ~IsString(medicine.medicine_name)
    \/ Len(Trim(medicine.medicine_name)) < 2

\* the index the validation loop returns at (Len: it runs to its end)
RECURSIVE FirstRejected(_, _)
FirstRejected(ms, i) ==
    IF i >= Len(ms) THEN Len(ms)
    ELSE IF ItemRejected(ms[i + 1]) THEN i
    ELSE FirstRejected(ms, i + 1)

\* sendError(res, message, 400)
ErrorResponse(message, index) ==
    [NoResponse EXCEPT !.status = "ERROR", !.code = 400,
                       !.message = message, !.index = index]

\* the handler up to the call of batchFuzzySearch
HandleBatchRequest ==
    /\ epc = "request"
    /\ LET bad == FirstRejected(medicines, 0)
           reject(message, index) ==
               /\ response' = ErrorResponse(message, index)
               /\ epc' = "responded"
               /\ UNCHANGED <<bpc, batchOptions>>
       IN  IF medicinesKind = "missing"
           THEN reject("medicines array is required", -1)
           ELSE IF medicinesKind # "array"
           THEN reject("medicines must be an array", -1)
           ELSE IF Len(medicines) = 0
           THEN reject("medicines array cannot be empty", -1)
           ELSE IF Len(medicines) > MaxBatchSize
           THEN reject("Maximum 100 medicines allowed per batch", -1)
           ELSE IF bad < Len(medicines)
           THEN IF ~Truthy(medicines[bad + 1].medicine_name)
                THEN reject("medicine_name is required for medicine at index", bad)
                ELSE reject("medicine_name at index must be at least 2 characters long",
                            bad)
           ELSE IF RatLt(reqMinSimilarity, Zero) \/ RatLt(One, reqMinSimilarity)
           THEN reject("minSimilarity must be between 0 and 1", -1)
           ELSE IF reqMaxResults < 1 \/ reqMaxResults > MaxResultsPerItem
           THEN reject("maxResults must be between 1 and 20", -1)
           ELSE /\ batchOptions' = [minSimilarity |-> reqMinSimilarity,
                                    maxResults |-> reqMaxResults,
                                    preferExactMatch |-> TRUE]
                /\ bpc' = "call"
                /\ epc' = "await"
                /\ UNCHANGED response
    /\ UNCHANGED <<medicines, medicinesKind, bi, results, reqMinSimilarity,
                   reqMaxResults, searchVars, simVars, nameVars, concVars>>

\* results.map(...): one formatted entry
FormatEntry(entry) ==
    [original_name |-> entry.original.medicine_name,
     original_salt |-> entry.original.medicine_salt,
     index |-> entry.index,
     found |-> entry.searchResult.success,
     medicine |-> IF entry.searchResult.success
                  THEN entry.searchResult.match ELSE NoMedicine,
     match_type |-> entry.searchResult.matchType,
     confidence |-> entry.searchResult.confidence,
     error |-> IF entry.searchResult.success THEN ""
               ELSE entry.searchResult.message]

\* batchFuzzySearch has returned: format the results and answer
RespondBatch ==
    /\ epc = "await"
    /\ bpc = "done"
    /\ LET formattedResults == [k \in 1..Len(results) |-> FormatEntry(results[k])]
       IN  response' =
               [NoResponse EXCEPT
                   !.status = "SUCCESS",
                   !.message = "Batch search completed",
                   !.total_searched = Len(medicines),
                   !.total_found =
                       Cardinality({k \in 1..Len(formattedResults) :
                                       formattedResults[k].found}),
                   !.results = formattedResults]
    /\ epc' = "responded"
    /\ UNCHANGED <<reqMinSimilarity, reqMaxResults, searchVars, batchVars, simVars,
                   nameVars, concVars>>

\* the options batchFuzzySearch is called with directly
DirectOptions == {DefaultOptions, [DefaultOptions EXCEPT !.preferExactMatch = FALSE]}

\* one batch, handed to batchFuzzySearch or posted to the endpoint
BatchInit ==
    /\ SimIdle
    /\ NameIdle
    /\ ConcIdle
    /\ catalog \in BatchCatalogs
    /\ medicineName = NULL
    /\ minSimilarity = Zero
    /\ maxResults = 0
    /\ includeSalt = NULL
    /\ preferExactMatch = FALSE
    /\ pc = "idle"
    /\ variations = <<>>
    /\ vi = 0
    /\ fuzzyResults = <<>>
    /\ collected = <<>>
    /\ result = NoResult
    /\ queryLog = <<>>
    /\ medicinesKind \in {"array", "missing", "notArray"}
    /\ medicines \in IF medicinesKind = "array"
                     THEN SeqsUpTo(Items, MaxBatch) ELSE {<<>>}
    /\ bi = 0
    /\ results = <<>>
    /\ response = NoResponse
    /\ \/ /\ epc = "idle"
          /\ bpc = "call"
          /\ batchOptions \in DirectOptions
          /\ reqMinSimilarity = Zero
          /\ reqMaxResults = 0
       \/ /\ epc = "request"
          /\ bpc = "idle"
          /\ batchOptions = DefaultOptions
          /\ reqMinSimilarity \in {Rat(7, 10), Rat(3, 2)}
          /\ reqMaxResults \in {5, 21}

BatchNext ==
    \/ HandleBatchRequest
    \/ BatchStart
    \/ CallFuzzySearch
    \/ ExactQueryFails
    \/ ExactQueryReturns
    \/ FuzzyQueryFails
    \/ FuzzyQueryReturns
    \/ CompositionQueryFails
    \/ CompositionQueryReturns
    \/ BatchCollect
    \/ RespondBatch

SpecBatch == BatchInit /\ [][BatchNext]_vars

(***************************************************************************)
(* SpecNames: extractStrengthFromName and generateMedicineNameVariations   *)
(* on names that end in a dosage or in a pharmaceutical-form suffix        *)
(***************************************************************************)
\* String.prototype.toUpperCase on one character
UpperChar(c) ==
    IF \E u \in UpperChars : LowerOf[u] = c
    THEN CHOOSE u \in UpperChars : LowerOf[u] = c
    ELSE c

ToUpper(s) == [i \in 1..Len(s) |-> UpperChar(s[i])]

\* a word as written in lower case, in upper case and capitalised
CaseForms(s) == {s, ToUpper(s), <<UpperChar(s[1])>> \o Tail(s)}

sB12 == <<"B","1","2">>
sVitaminC == <<"V","i","t"," ","C">>
sDoloSR == sDolo \o <<" ","S","R">>
sDoloTab == sDolo \o <<" ","t","a","b">>
s2p5 == <<"2",".","5">>
s0p05 == <<"0",".","0","5">>

\* the base words a dosage is written after
DoseBases == {sParacetamol, sDolo, sB12, sA}

\* the numbers of a dosage
DoseNumbers == {s500, s650, s2p5, s0p05}

\* the units of a dosage, in the three ways of writing each
DoseUnits == UNION {CaseForms(STRENGTH_UNITS[k]) : k \in 1..Len(STRENGTH_UNITS)}

\* '<base> <number><unit>'
DosedNames ==
    {b \o <<" ">> \o n \o u : b \in DoseBases, n \in DoseNumbers, u \in DoseUnits}

\* the bases a suffix is written after
SuffixBases == {sParacetamol, sDolo, sB12, sVitaminC, sA, sDoloSR, sDoloTab}

\* the suffixes, in the three ways of writing each
SuffixForms ==
    UNION {CaseForms(MEDICINE_SUFFIXES[k]) : k \in 1..Len(MEDICINE_SUFFIXES)}

\* '<base> <suffix>'
SuffixedNames == {b \o <<" ">> \o f : b \in SuffixBases, f \in SuffixForms}

\* what is written after a dosage: a form, a second dosage
DoseTails == {<<"t","a","b">>, <<"5","m","l">>}

\* '<base> <number><unit> <tail>'
TrailedNames ==
    {b \o <<" ">> \o n \o u \o <<" ">> \o t :
        b \in {sDolo, sA}, n \in {s500, s2p5}, u \in {smg, sMG}, t \in DoseTails}

\* the characters of the OCR classes, a capital and the blank
OcrAlphabet == {"I", "l", "1", "o", "0", "s", "5", " "}

\* every short string over them
OcrNames == StringsUpTo(OcrAlphabet, MaxLen)

NameInit ==
    /\ nameIn \in DosedNames \cup SuffixedNames \cup TrailedNames \cup OcrNames
    /\ extracted = NoExtract
    /\ nameVariations = <<>>
    /\ namePc = "call"
    /\ SimIdle
    /\ SearchIdle
    /\ BatchIdle
    /\ EndpointIdle
    /\ ConcIdle

CallExtractStrength ==
    /\ namePc = "call"
    /\ extracted' = extractStrengthFromName(nameIn)
    /\ namePc' = "extracted"
    /\ UNCHANGED <<nameIn, nameVariations, simVars, searchVars, batchVars, endpointVars,
                 concVars>>

CallGenerateVariations ==
    /\ namePc = "call"
    /\ nameVariations' = generateMedicineNameVariations(nameIn)
    /\ namePc' = "generated"
    /\ UNCHANGED <<nameIn, extracted, simVars, searchVars, batchVars, endpointVars,
                 concVars>>

NameNext ==
    \/ CallExtractStrength
    \/ CallGenerateVariations

SpecNames == NameInit /\ [][NameNext]_vars

(***************************************************************************)
(* SpecConc: two calls in flight on one event loop.  A call runs from one  *)
(* await to the next; while it waits on the store the other call may run.  *)
(* The variables of the resolution hold the locals of the call that runs,  *)
(* waiting holds the locals of the other one.                              *)
(***************************************************************************)
\* the locals of the call that runs
Locals ==
    [medicineName |-> medicineName, minSimilarity |-> minSimilarity,
     maxResults |-> maxResults, includeSalt |-> includeSalt,
     preferExactMatch |-> preferExactMatch, pc |-> pc,
     variations |-> variations, vi |-> vi, fuzzyResults |-> fuzzyResults,
     collected |-> collected, result |-> result, queryLog |-> queryLog,
     medicines |-> medicines, medicinesKind |-> medicinesKind,
     batchOptions |-> batchOptions, bi |-> bi, results |-> results, bpc |-> bpc]

\* the call has not returned yet
Unfinished(call) ==
    IF call.bpc = "idle" THEN call.pc \notin {"idle", "done"}
    ELSE call.bpc # "done"

\* the switch in which the candidates are one array shared by the two calls
SwitchSharingCandidates ==
    /\ Unfinished(waiting)
    /\ waiting' = Locals
    /\ running' = 3 - running
    /\ medicineName' = waiting.medicineName
    /\ minSimilarity' = waiting.minSimilarity
    /\ maxResults' = waiting.maxResults
    /\ includeSalt' = waiting.includeSalt
    /\ preferExactMatch' = waiting.preferExactMatch
    /\ pc' = waiting.pc
    /\ variations' = waiting.variations
    /\ vi' = waiting.vi
    /\ collected' = waiting.collected
    /\ result' = waiting.result
    /\ queryLog' = waiting.queryLog
    /\ medicines' = waiting.medicines
    /\ medicinesKind' = waiting.medicinesKind
    /\ batchOptions' = waiting.batchOptions
    /\ bi' = waiting.bi
    /\ results' = waiting.results
    /\ bpc' = waiting.bpc
    /\ UNCHANGED <<fuzzyResults, catalog, simVars, endpointVars, nameVars>>

\* the event loop goes on with the other call: each call keeps its own
\* arguments, options and locals; the catalog is the one thing they share
Switch ==
    /\ Unfinished(waiting)
    /\ waiting' = Locals
    /\ running' = 3 - running
    /\ medicineName' = waiting.medicineName
    /\ minSimilarity' = waiting.minSimilarity
    /\ maxResults' = waiting.maxResults
    /\ includeSalt' = waiting.includeSalt
    /\ preferExactMatch' = waiting.preferExactMatch
    /\ pc' = waiting.pc
    /\ variations' = waiting.variations
    /\ vi' = waiting.vi
    /\ fuzzyResults' = waiting.fuzzyResults
    /\ collected' = waiting.collected
    /\ result' = waiting.result
    /\ queryLog' = waiting.queryLog
    /\ medicines' = waiting.medicines
    /\ medicinesKind' = waiting.medicinesKind
    /\ batchOptions' = waiting.batchOptions
    /\ bi' = waiting.bi
    /\ results' = waiting.results
    /\ bpc' = waiting.bpc
    /\ UNCHANGED <<catalog, simVars, endpointVars, nameVars>>

\* a call of fuzzySearchMedicine that has not started
SingleCall(name, threshold, salt, prefer) ==
    [NoCall EXCEPT !.medicineName = name, !.minSimilarity = threshold,
                   !.maxResults = 5, !.includeSalt = salt,
                   !.preferExactMatch = prefer, !.pc = "call"]

\* a call of batchFuzzySearch that has not started
BatchCall(ms, options) ==
    [NoCall EXCEPT !.medicines = ms, !.batchOptions = options, !.bpc = "call"]

\* the first call: a search by name
FirstCalls ==
    {SingleCall(n, t, NULL, p) :
        n \in {sparacetamol, sPar}, t \in {Rat(3, 10), Rat(7, 10)}, p \in BOOLEAN}

ConcItems == {
    [medicine_name |-> sPar, medicine_salt |-> NULL],
    [medicine_name |-> sCrocin, medicine_salt |-> sSaltExact] }

\* the second call: a search by name and salt, or a batch
SecondCalls ==
    {SingleCall(n, Rat(7, 10), sSaltExact, p) : n \in {sCrocin, sPar}, p \in BOOLEAN}
    \cup {BatchCall(ms, o) :
            ms \in {q \in SeqsUpTo(ConcItems, 2) : q # <<>>}, o \in DirectOptions}

ConcInit ==
    /\ SimIdle
    /\ EndpointIdle
    /\ NameIdle
    /\ catalog \in BatchCatalogs
    /\ running = 1
    /\ waiting \in SecondCalls
    /\ \E first \in FirstCalls :
          /\ medicineName = first.medicineName
          /\ minSimilarity = first.minSimilarity
          /\ maxResults = first.maxResults
          /\ includeSalt = first.includeSalt
          /\ preferExactMatch = first.preferExactMatch
          /\ pc = first.pc
          /\ variations = first.variations
          /\ vi = first.vi
          /\ fuzzyResults = first.fuzzyResults
          /\ collected = first.collected
          /\ result = first.result
          /\ queryLog = first.queryLog
          /\ medicines = first.medicines
          /\ medicinesKind = first.medicinesKind
          /\ batchOptions = first.batchOptions
          /\ bi = first.bi
          /\ results = first.results
          /\ bpc = first.bpc

\* every store query is answered
ConcNext ==
    \/ Switch
    \/ CallFuzzySearch
    \/ ExactQueryReturns
    \/ FuzzyQueryReturns
    \/ CompositionQueryReturns
    \/ BatchStart
    \/ BatchCollect

SpecConc == ConcInit /\ [][ConcNext]_vars

(***************************************************************************)
(* SpecLive: a call of fuzzySearchMedicine or of batchFuzzySearch in which *)
(* every store query eventually returns or fails                           *)
(***************************************************************************)
LiveNames == {sA, sPar, sD0lo, sCrocin}

LiveItems == ConcItems \cup {[medicine_name |-> sA, medicine_salt |-> NULL]}

LiveInit ==
    /\ SimIdle
    /\ EndpointIdle
    /\ NameIdle
    /\ ConcIdle
    /\ catalog \in BatchCatalogs
    /\ variations = <<>>
    /\ vi = 0
    /\ fuzzyResults = <<>>
    /\ collected = <<>>
    /\ result = NoResult
    /\ queryLog = <<>>
    /\ bi = 0
    /\ results = <<>>
    /\ medicinesKind = "array"
    /\ \/ /\ pc = "call"
          /\ bpc = "idle"
          /\ medicineName \in LiveNames
          /\ minSimilarity = Rat(7, 10)
          /\ maxResults = 5
          /\ includeSalt \in {NULL, sSaltExact}
          /\ preferExactMatch \in BOOLEAN
          /\ medicines = <<>>
          /\ batchOptions = DefaultOptions
       \/ /\ pc = "idle"
          /\ bpc = "call"
          /\ medicineName = NULL
          /\ minSimilarity = Zero
          /\ maxResults = 0
          /\ includeSalt = NULL
          /\ preferExactMatch = FALSE
          /\ medicines \in SeqsUpTo(LiveItems, 2)
          /\ batchOptions \in DirectOptions

LiveNext ==
    \/ BatchStart
    \/ CallFuzzySearch
    \/ ExactQueryFails
    \/ ExactQueryReturns
    \/ FuzzyQueryFails
    \/ FuzzyQueryReturns
    \/ CompositionQueryFails
    \/ CompositionQueryReturns
    \/ BatchCollect

\* the store answers or fails every query, and the call then goes on
SpecLive == LiveInit /\ [][LiveNext]_vars /\ WF_vars(LiveNext)

(***************************************************************************)
(* One call by itself, as a function of its arguments and the catalog:     *)
(* the set of the results it can return when every query is answered       *)
(***************************************************************************)
\* the object tryExactMatch returns on a hit
ExactHit(row, variant) ==
    [success |-> TRUE, message |-> "", confidence |-> One,
     match |-> formatMedicineResult(row), matchType |-> "exact",
     searchTerm |-> variant]

\* what tryExactMatch can return from variant k on; NoResult stands for null
RECURSIVE AloneExact(_, _, _)
AloneExact(table, variants, k) ==
    IF k > Len(variants) THEN {NoResult}
    ELSE UNION {IF Len(rows) > 0 THEN {ExactHit(rows[1], variants[k])}
                ELSE AloneExact(table, variants, k + 1) :
                   rows \in ExactQuery(table, variants[k])}

FuzzyCandidates(rows, variant) ==
    [i \in 1..Len(rows) |->
        [medicine |-> formatMedicineResult(rows[i].row),
         similarity |-> calculateSimilarity(variant, rows[i].row.med_brand_name),
         matchScore |-> rows[i].match_score,
         searchTerm |-> variant]]

\* the arrays tryFuzzyLikeSearch can return from variant k on
RECURSIVE AloneFuzzy(_, _, _, _, _)
AloneFuzzy(table, variants, k, limit, found) ==
    IF k > Len(variants) THEN {found}
    ELSE UNION {UNION {AloneFuzzy(table, variants, k + 1, limit, next) :
                          next \in {found \o FuzzyCandidates(rows, variants[k])}} :
                   rows \in FuzzyQuery(table, variants[k], limit)}

CompositionCandidates(rows, salt) ==
    [i \in 1..Len(rows) |->
        [medicine |-> formatMedicineResult(rows[i].row),
         similarity |-> IF RatEq(rows[i].comp_similarity, Zero)
                        THEN Rat(7, 10) ELSE rows[i].comp_similarity,
         matchScore |-> IF rows[i].comp_match_score = NoColumn
                        THEN 80 ELSE rows[i].comp_match_score,
         searchTerm |-> salt]]

\* Step 4: the pools after the composition strategy had its turn
AloneMerged(table, pools, salt, limit) ==
    UNION {IF Truthy(salt) /\ Len(pool) = 0
           THEN {CompositionCandidates(rows, salt) :
                    rows \in CompositionQuery(table, salt, limit)}
           ELSE {pool} :
              pool \in pools}

\* Step 5 on a sorted pool
Answer(sorted, threshold) ==
    IF sorted # <<>> /\ MeetsThreshold(sorted[1].similarity, threshold)
    THEN [success |-> TRUE, message |-> "",
          confidence |-> sorted[1].similarity,
          match |-> sorted[1].medicine,
          matchType |-> IF sorted[1].matchScore = 100
                        THEN "exact-composition" ELSE "fuzzy",
          searchTerm |-> sorted[1].searchTerm]
    ELSE NoMatchFailure

\* Steps 3 to 5
AloneAfterExact(table, variants, threshold, limit, salt) ==
    {CHOOSE out \in {Answer(sorted, threshold) :
                        sorted \in {SortCandidates(pool)}} : TRUE :
        pool \in AloneMerged(table, AloneFuzzy(table, variants, 1, limit, <<>>),
                             salt, limit)}

AloneFromVariants(table, variants, threshold, limit, salt, prefer) ==
    IF ~prefer THEN AloneAfterExact(table, variants, threshold, limit, salt)
    ELSE UNION {IF NoResult \in exact
                THEN (exact \ {NoResult})
                        \cup AloneAfterExact(table, variants, threshold, limit, salt)
                ELSE exact :
                   exact \in {AloneExact(table, variants, 1)}}

AloneResults(table, name, threshold, limit, salt, prefer) ==
    IF NameTooShort(name) THEN {ValidationFailure}
    ELSE UNION {AloneFromVariants(table, variants, threshold, limit, salt, prefer) :
                   variants \in {generateMedicineNameVariations(name)}}

(***************************************************************************)
(* Properties                                                              *)
(***************************************************************************)
NoQueryFailed == \A k \in 1..Len(queryLog) : queryLog[k].ok

HoldsActiveBrand(brand) ==
    \E r \in catalog :
        r.is_active = 1 /\ r.is_deactivated = 0 /\ r.med_brand_name = brand

\* C1: with the default threshold 0.7 and default options, the query
\* "Paracetmol" against a catalog holding the active brand "Paracetamol"
\* returns success, matchType "fuzzy" and a confidence of at least 0.7.
C1_DroppedLetterResolves ==
    (/\ pc = "done"
     /\ medicineName = sParacetmol
     /\ minSimilarity = Rat(7, 10)
     /\ maxResults = 5
     /\ includeSalt = NULL
     /\ preferExactMatch
     /\ HoldsActiveBrand(sParacetamol)
     /\ NoQueryFailed)
    => /\ result.success
       /\ result.matchType = "fuzzy"
       /\ RatLe(Rat(7, 10), result.confidence)

EqualsActiveBrand(name) ==
    /\ IsString(name)
    /\ \E r \in catalog :
          /\ r.is_active = 1
          /\ r.is_deactivated = 0
          /\ ToLower(Trim(name)) = ToLower(r.med_brand_name)

ReturnsExact ==
    /\ result.success
    /\ result.confidence = One
    /\ result.matchType = "exact"

MissingOrShort(name) ==
    name = NULL \/ name = NUMBER \/ Len(Trim(name)) < 2

\* C3: a name that is missing, not a string, or shorter than 2 characters
\* after trimming gets the validation failure whatever the catalog holds,
\* and no store query is issued and no variant generated.
C3_ShortNameFailsValidation ==
    MissingOrShort(medicineName)
    => /\ queryLog = <<>>
       /\ variations = <<>>
       /\ pc \in {"call", "done"}
       /\ pc = "done" =>
            /\ ~result.success
            /\ result.message = "Medicine name must be at least 2 characters long"
            /\ result.confidence = Zero

\* a one-letter name padded with blanks fails although the catalog holds it
C3_Witness ==
    /\ pc = "done"
    /\ medicineName = sAPadded
    /\ HoldsActiveBrand(sA)
    /\ result = ValidationFailure

\* C4: a returned match is a catalog record with is_active = 1 and
\* is_deactivated = 0, whichever strategy found it.
C4_MatchIsActive ==
    result.success
    => \E r \in catalog :
          /\ r.med_id = result.match.med_drug_id
          /\ r.med_brand_name = result.match.drug_name
          /\ r.is_active = 1
          /\ r.is_deactivated = 0

\* a deactivated record bears the name asked for and another record is returned
C4_Witness ==
    /\ pc = "done"
    /\ result.success
    /\ \E r \in catalog :
          /\ r.is_deactivated = 1
          /\ ToLower(r.med_brand_name) = ToLower(Trim(medicineName))
          /\ result.match.med_drug_id # r.med_id

\* C5: a result with success = true has a confidence of at least
\* minSimilarity; no candidate below the threshold is the final answer.
C5_ConfidenceMeetsThreshold ==
    (pc = "done" /\ result.success) => RatLe(minSimilarity, result.confidence)

\* a fuzzy candidate of similarity under 1 passes a threshold over 0
C5_Witness ==
    /\ pc = "done"
    /\ result.success
    /\ result.matchType = "fuzzy"
    /\ RatLt(Zero, minSimilarity)
    /\ RatLt(result.confidence, One)

BatchReturned == bpc = "done" /\ medicinesKind = "array" /\ Len(medicines) > 0

\* C6: batchFuzzySearch on n items returns n entries in input order, entry i
\* with index i and the i-th item; an item whose name is missing or too short
\* has its own failed entry, and the other items are resolved all the same.
C6_BatchKeepsEveryItem ==
    BatchReturned
    => /\ Len(results) = Len(medicines)
       /\ \A k \in 1..Len(medicines) :
             /\ results[k].index = k - 1
             /\ results[k].original = medicines[k]
             /\ MissingOrShort(medicines[k].medicine_name)
                   => results[k].searchResult = ValidationFailure
             /\ (/\ medicines[k].medicine_name = sparacetamol
                 /\ HoldsActiveBrand(sParacetamol)
                 /\ batchOptions.preferExactMatch
                 /\ NoQueryFailed)
                   => /\ results[k].searchResult.success
                      /\ results[k].searchResult.matchType = "exact"

\* three items, the second too short, the first and the third found
C6_Witness ==
    /\ BatchReturned
    /\ Len(medicines) = 3
    /\ medicines[2].medicine_name = sA
    /\ ~results[2].searchResult.success
    /\ results[1].searchResult.success
    /\ results[3].searchResult.success
    /\ results[3].index = 2

EndpointAnswered == epc = "responded" /\ medicinesKind = "array"

SomeItemInvalid ==
    \E k \in 1..Len(medicines) : MissingOrShort(medicines[k].medicine_name)

C8_SimilarityOfSelfIsOne ==
    (simPc = "return" /\ str1 = str2) => simOut = One

\* C9: calculateSimilarity(a, b) equals calculateSimilarity(b, a).
C9_SimilaritySymmetric ==
    simPc = "return" => simOut = calculateSimilarity(str2, str1)

Normal(s) == Trim(ToLower(s))

\* two strings of different lengths, neither holding the other, that share
\* a letter: the edit-distance rule gives a score strictly between 0 and 1
C9_Witness ==
    /\ simPc = "return"
    /\ Len(Normal(str1)) < Len(Normal(str2))
    /\ ~Includes(Normal(str2), Normal(str1))
    /\ RatLt(Zero, simOut)
    /\ RatLt(simOut, One)

\* C10: calculateSimilarity(a, b) lies in [0, 1], and the edit distance never
\* exceeds the length of the longer string.
C10_SimilarityInUnitInterval ==
    simPc = "return"
    => /\ simOut[2] > 0
       /\ RatLe(Zero, simOut)
       /\ RatLe(simOut, One)
       /\ levenshteinDistance(Normal(str1), Normal(str2))
             <= Max2(Len(Normal(str1)), Len(Normal(str2)))

\* the edit distance equals the longer length and the score is exactly 0;
\* a containment of a shorter string scores under 0.8
C10_Witness ==
    /\ simPc = "return"
    /\ Len(Normal(str1)) = 3
    /\ Len(Normal(str2)) = 1
    /\ Includes(Normal(str1), Normal(str2))
    /\ simOut = Rat(4, 15)

\* C11: for a name made of a base word, a blank and one dosage token (a
\* number immediately followed by a unit, in any case), extractStrengthFromName
\* returns the base word as name, the number as strength and the lowercased
\* unit as unit.
C11_DosageExtracted ==
    \A b \in DoseBases, n \in DoseNumbers, u \in DoseUnits :
        (namePc = "extracted" /\ nameIn = b \o <<" ">> \o n \o u)
        => /\ extracted.name = b
           /\ extracted.strength = n
           /\ extracted.unit = ToLower(u)
           /\ extracted.fullDose = n \o ToLower(u)

\* a base word that holds digits, a decimal number and a unit in capitals
\* that two shorter alternatives of the pattern are a part of
C11_Witness ==
    /\ namePc = "extracted"
    /\ nameIn = sB12 \o <<" ">> \o s2p5 \o <<"M","C","G">>
    /\ extracted.name = sB12
    /\ extracted.strength = s2p5
    /\ extracted.unit = <<"m","c","g">>

\* the place of a suffix, in any case, in MEDICINE_SUFFIXES
SuffixIndex(f) ==
    CHOOSE k \in 1..Len(MEDICINE_SUFFIXES) : MEDICINE_SUFFIXES[k] = ToLower(f)

EndsWith(s, t) ==
    Len(t) <= Len(s) /\ SubSeq(s, Len(s) - Len(t) + 1, Len(s)) = t

\* the base ends in a blank and a suffix that the loop comes to after f
EndsInLaterSuffix(b, f) ==
    \E j \in (SuffixIndex(f) + 1)..Len(MEDICINE_SUFFIXES) :
        EndsWith(ToLower(b), <<" ">> \o MEDICINE_SUFFIXES[j])

\* C12 as claimed: for every name '<base> <suffix>' with a known suffix in
\* any case, generateMedicineNameVariations includes the lowercased base.
C12_SuffixStrippedForEveryBase ==
    \A b \in SuffixBases, f \in SuffixForms :
        (namePc = "generated" /\ nameIn = b \o <<" ">> \o f)
        => ToLower(b) \in Range(nameVariations)

\* C12 as amended: for every name '<base> <suffix>' with a known suffix in
\* any case, a base of at least 2 characters that does not itself end in a
\* blank and a suffix listed after <suffix>, generateMedicineNameVariations
\* includes the lowercased base.
C12_SuffixStripped ==
    \A b \in SuffixBases, f \in SuffixForms :
        (/\ namePc = "generated"
         /\ nameIn = b \o <<" ">> \o f
         /\ Len(b) >= 2
         /\ ~EndsInLaterSuffix(b, f))
        => ToLower(b) \in Range(nameVariations)

\* a base of two words before a suffix in capitals
C12_Witness ==
    /\ namePc = "generated"
    /\ nameIn = sVitaminC \o <<" ","T","A","B","L","E","T","S">>
    /\ ToLower(sVitaminC) \in Range(nameVariations)

\* no variant of the name is equal to or contained in an active brand name
NoBrandCandidate ==
    \A i \in 1..Len(variations) : \A r \in ActiveRows(catalog) :
        ~LikeMatch(ToLower(r.med_brand_name),
                   <<"%">> \o ToLower(variations[i]) \o <<"%">>)

\* a composition slot of r has the name, the strength and the unit of the salt
SlotEqualsSalt(r, salt) ==
    \E parsed \in {extractStrengthFromName(salt)} :
        \E i \in 1..Len(r.compositions) :
            /\ r.compositions[i].name # NULL
            /\ ToLower(r.compositions[i].name) = ToLower(parsed.name)
            /\ r.compositions[i].strength = parsed.strength
            /\ r.compositions[i].unit # NULL
            /\ ToLower(r.compositions[i].unit) = parsed.unit

SaltHasExactRecord ==
    /\ Truthy(includeSalt)
    /\ \E r \in ActiveRows(catalog) : SlotEqualsSalt(r, includeSalt)

\* the answer is a record with the salt's slot, found as exact-composition,
\* and every candidate of score 100 stands before every candidate of score 80
ExactCompositionWins ==
    /\ result.success
    /\ result.matchType = "exact-composition"
    /\ \E r \in ActiveRows(catalog) :
          r.med_id = result.match.med_drug_id /\ SlotEqualsSalt(r, includeSalt)
    /\ \A i, j \in 1..Len(fuzzyResults) :
          (fuzzyResults[i].matchScore = 100 /\ fuzzyResults[j].matchScore = 80)
             => i < j

CompositionQueryFailed ==
    \E k \in 1..Len(queryLog) :
        queryLog[k].strategy = "composition" /\ ~queryLog[k].ok

QueryFailedNow ==
    /\ Len(queryLog') = Len(queryLog) + 1
    /\ ~queryLog'[Len(queryLog')].ok

\* the step leaves the candidates collected so far as they are, up to order
KeepsCandidates ==
    /\ Len(fuzzyResults') = Len(fuzzyResults)
    /\ Range(fuzzyResults') = Range(fuzzyResults)

\* the resolution ends with the best candidate of the pool when it meets the
\* threshold, and with the no-match failure when it does not
AnswersFromPool ==
    IF fuzzyResults # <<>> /\ RatLe(minSimilarity, fuzzyResults[1].similarity)
    THEN /\ result.success
         /\ result.match = fuzzyResults[1].medicine
         /\ result.confidence = fuzzyResults[1].similarity
    ELSE result = NoMatchFailure

\* what the resolution does after a query that returned no rows
GoesOnAsAfterNoRows ==
    /\ KeepsCandidates
    /\ pc = "exact" =>
          /\ result' = result
          /\ IF vi < Len(variations)
             THEN pc' = "exact" /\ vi' = vi + 1
             ELSE pc' = "fuzzy" /\ vi' = 1
    /\ pc = "fuzzy" =>
          IF vi < Len(variations)
          THEN pc' = "fuzzy" /\ vi' = vi + 1 /\ result' = result
          ELSE IF Truthy(includeSalt) /\ fuzzyResults = <<>>
          THEN pc' = "composition" /\ result' = result
          ELSE pc' = "done" /\ AnswersFromPool'
    /\ pc = "composition" => (pc' = "done" /\ AnswersFromPool')

\* C14: a store query that fails is treated as one that found nothing: the
\* resolution does not end on it, goes on with the next variant of the
\* strategy or with the next strategy, keeps the candidates it had, and
\* answers from the candidates the other queries found.
C14_FailedQueryIsNoCandidates ==
    [][QueryFailedNow => GoesOnAsAfterNoRows]_vars

\* the exact query of the first variant failed and the exact query of a
\* later variant found the record
C14_Witness ==
    /\ pc = "done"
    /\ Len(queryLog) >= 2
    /\ queryLog[1].strategy = "exact"
    /\ ~queryLog[1].ok
    /\ result.success
    /\ result.matchType = "exact"
    /\ result.searchTerm = queryLog[Len(queryLog)].term

EveryQueryFailed ==
    /\ queryLog # <<>>
    /\ \A k \in 1..Len(queryLog) : ~queryLog[k].ok

\* C15: when every store query of a resolution fails, the failure returned
\* differs from the no-match failure returned when the queries succeed and
\* find nothing.
C15_AllFailedIsDistinct ==
    (pc = "done" /\ EveryQueryFailed) => result # NoMatchFailure

\* C16: a result with success = false has confidence 0, no match record and
\* no matchType, whether no candidate was found, the best candidate is below
\* the threshold, or the name failed the validation.
C16_FailureCarriesNothing ==
    (pc = "done" /\ ~result.success)
    => /\ result.confidence = Zero
       /\ result.match = NoMedicine
       /\ result.matchType = ""

\* candidates were found and the best of them is below the threshold
C16_Witness ==
    /\ pc = "done"
    /\ ~result.success
    /\ fuzzyResults # <<>>
    /\ RatLt(fuzzyResults[1].similarity, minSimilarity)
    /\ result.message = "No matching medicine found"

\* a stands strictly before b under the key of the claim: match score
\* descending, similarity descending, weight descending with nulls last
ClaimedBefore(a, b) ==
    \/ a.matchScore > b.matchScore
    \/ /\ a.matchScore = b.matchScore
       /\ RatLt(b.similarity, a.similarity)
    \/ /\ a.matchScore = b.matchScore
       /\ RatEq(a.similarity, b.similarity)
       /\ WeightBefore(a.medicine.med_weightage, b.medicine.med_weightage)

\* C17: the winner picked from the merged pool is maximal under the key
\* (match score, similarity, popularity weight), a null weight ranking after
\* every non-null weight, 0 and negative weights included.
C17_WinnerIsMaximal ==
    (pc = "done" /\ fuzzyResults # <<>>)
    => \A i \in 1..Len(fuzzyResults) :
          ~ClaimedBefore(fuzzyResults[i], fuzzyResults[1])

\* a and b tie on match score, similarity and popularity weight
Ties(a, b) ==
    /\ a.matchScore = b.matchScore
    /\ RatEq(a.similarity, b.similarity)
    /\ a.medicine.med_weightage = b.medicine.med_weightage

\* the place of a search term among the variants, in generation order
VariantIndex(t) == CHOOSE k \in 1..Len(variations) : variations[k] = t

\* C18: among the candidates that tie with the winner on the three keys, the
\* winner is the one collected first; candidates are collected in the order
\* the variants were generated.
C18_FirstCollectedWinsTie ==
    (pc = "done" /\ collected # <<>>)
    => /\ \E first \in 1..Len(collected) :
             /\ collected[first] = fuzzyResults[1]
             /\ \A j \in 1..(first - 1) : ~Ties(collected[j], fuzzyResults[1])
       /\ result.success
             => /\ result.match = fuzzyResults[1].medicine
                /\ result.searchTerm = fuzzyResults[1].searchTerm
       /\ \A i, j \in 1..Len(collected) :
             (/\ i < j
              /\ collected[i].searchTerm \in Range(variations)
              /\ collected[j].searchTerm \in Range(variations))
             => VariantIndex(collected[i].searchTerm)
                   <= VariantIndex(collected[j].searchTerm)

\* one record found by two variants: the candidate of the earlier variant wins
C18_Witness ==
    /\ pc = "done"
    /\ result.success
    /\ Len(collected) >= 2
    /\ Ties(collected[1], collected[2])
    /\ collected[1].searchTerm # collected[2].searchTerm
    /\ result.searchTerm = collected[1].searchTerm

\* C19: when the no-match failure is returned although candidates were
\* collected, every collected candidate has a similarity under minSimilarity.
C19_NoCandidateMeetsBar ==
    (pc = "done" /\ result = NoMatchFailure /\ fuzzyResults # <<>>)
    => \A i \in 1..Len(fuzzyResults) :
          RatLt(fuzzyResults[i].similarity, minSimilarity)

\* the variant equals, ignoring case, the brand name of an active record
HasEqualBrand(variant) ==
    \E r \in ActiveRows(catalog) : ToLower(r.med_brand_name) = ToLower(variant)

\* the queries issued are the exact queries of the first variants, in
\* generation order, and the last of them is the hit that is returned
StopsAtHit ==
    /\ Len(queryLog) >= 1
    /\ Len(queryLog) <= Len(variations)
    /\ \A k \in 1..Len(queryLog) :
          /\ queryLog[k].strategy = "exact"
          /\ queryLog[k].term = variations[k]
    /\ queryLog[Len(queryLog)].ok
    /\ result.searchTerm = variations[Len(queryLog)]
    /\ HasEqualBrand(result.searchTerm)
    /\ ToLower(result.match.drug_name) = ToLower(result.searchTerm)

ExactReturned == pc = "done" /\ result.success /\ result.matchType = "exact"

\* C20 as claimed: the exact strategy queries the variants in generation
\* order and stops at the first hit: searchTerm is the earliest variant with
\* an equal active brand name, and no query follows the hit.
C20_EarliestEqualVariant ==
    ExactReturned
    => /\ StopsAtHit
       /\ \A k \in 1..(Len(queryLog) - 1) : ~HasEqualBrand(variations[k])

\* C20 as amended: searchTerm is the earliest variant whose query did not
\* fail and that has an equal active brand name, and no query follows the hit.
C20_EarliestAnsweredVariant ==
    ExactReturned
    => /\ StopsAtHit
       /\ \A k \in 1..(Len(queryLog) - 1) :
             queryLog[k].ok => ~HasEqualBrand(variations[k])

\* the name as given has no equal brand, every query is answered, and the hit
\* comes at a later variant
C20_Witness ==
    /\ ExactReturned
    /\ Len(queryLog) >= 2
    /\ \A k \in 1..Len(queryLog) : queryLog[k].ok
    /\ ~HasEqualBrand(variations[1])
    /\ result.searchTerm = variations[Len(queryLog)]

\* the step issues the query of the composition strategy
CompositionQueryIssued ==
    /\ Len(queryLog') = Len(queryLog) + 1
    /\ queryLog'[Len(queryLog')].strategy = "composition"

\* the fuzzy queries logged so far, in the order they were issued
FuzzyTerms ==
    LET at == {k \in 1..Len(queryLog) : queryLog[k].strategy = "fuzzy"}
        RECURSIVE Pick(_)
        Pick(k) == IF k > Len(queryLog) THEN <<>>
                   ELSE IF k \in at THEN <<queryLog[k].term>> \o Pick(k + 1)
                   ELSE Pick(k + 1)
    IN  Pick(1)

\* C21: the query of the composition strategy is issued only if a non-empty
\* salt string was supplied and the fuzzy strategy has queried every variant
\* and collected no candidate; candidates once collected stay collected, so
\* after a fuzzy candidate the composition strategy is never run.
C21_CompositionOnlyAfterEmptyFuzzy ==
    [][/\ CompositionQueryIssued
          => /\ IsString(includeSalt) /\ includeSalt # <<>>
             /\ FuzzyTerms = variations
             /\ collected = <<>>
             /\ \A k \in 1..Len(queryLog) : queryLog[k].strategy # "composition"
       /\ Len(collected) <= Len(collected')
       /\ SubSeq(collected', 1, Len(collected)) = collected]_vars

\* the composition query has run although every fuzzy query was answered
C21_Witness ==
    /\ pc = "done"
    /\ queryLog # <<>>
    /\ queryLog[Len(queryLog)].strategy = "composition"
    /\ \A k \in 1..Len(queryLog) : queryLog[k].ok
    /\ Len(variations) >= 2

\* the composition query of the resolution was answered
CompositionQueryAnswered ==
    \E k \in 1..Len(queryLog) :
        queryLog[k].strategy = "composition" /\ queryLog[k].ok

\* C22: a success has matchType "exact-composition" only when its winner came
\* from the composition strategy with a match in name, strength and unit; a
\* winner found by the fuzzy brand-name strategy is labelled "fuzzy".
C22_ExactCompositionOnlyFromSalt ==
    (pc = "done" /\ result.success /\ result.matchType = "exact-composition")
    => /\ CompositionQueryAnswered
       /\ \E r \in ActiveRows(catalog) :
             /\ r.med_id = result.match.med_drug_id
             /\ SlotEqualsSalt(r, includeSalt)

\* C23: extractStrengthFromName takes strength and unit from the first
\* dosage token, and its name is the input with that token alone removed and
\* the whitespace collapsed and trimmed: what follows the token, a later
\* dosage included, stays, after a single blank.
C23_OnlyFirstTokenRemoved ==
    \A b \in {sDolo, sA}, n \in {s500, s2p5}, u \in {smg, sMG}, t \in DoseTails :
        (/\ namePc = "extracted"
         /\ nameIn = b \o <<" ">> \o n \o u \o <<" ">> \o t)
        => /\ extracted.strength = n
           /\ extracted.unit = ToLower(u)
           /\ extracted.name = b \o <<" ">> \o t

\* the first three variants collected before the OCR forms are added
OcrBases(name) ==
    CHOOSE out \in {SubSeq(v3, 1, Min2(3, Len(v3))) :
                       v3 \in {BaseVariations(Trim(name))}} : TRUE

\* C24: for each of the first three variants and each class {o,0}, {i,1,l},
\* {s,5} with a member in it, the list holds the form with the letters of the
\* class replaced by its digit and the form with the digit replaced by a
\* letter: every 'l' replaced by '1' for a variant with an 'l', and forms
\* using 'l' for a variant with an 'i' or a '1'.  Variants of one character
\* are left aside: their forms fall to the filter on the length.
C24_BothFormsOfEachClass ==
    namePc = "generated"
    => \A base \in {v \in Range(OcrBases(nameIn)) : Len(v) >= 2} :
         \E lowerBase \in {ToLower(base)} :
            /\ HasAny(lowerBase, {"o", "0"})
                  => /\ ReplaceAll(lowerBase, "o", "0") \in Range(nameVariations)
                     /\ ReplaceAll(lowerBase, "0", "o") \in Range(nameVariations)
            /\ HasAny(lowerBase, {"s", "5"})
                  => /\ ReplaceAll(lowerBase, "s", "5") \in Range(nameVariations)
                     /\ ReplaceAll(lowerBase, "5", "s") \in Range(nameVariations)
            /\ HasAny(lowerBase, {"i"})
                  => /\ ReplaceAll(lowerBase, "i", "1") \in Range(nameVariations)
                     /\ ReplaceAll(lowerBase, "i", "l") \in Range(nameVariations)
            /\ HasAny(lowerBase, {"l"})
                  => ReplaceAll(lowerBase, "l", "1") \in Range(nameVariations)
            /\ HasAny(lowerBase, {"1"})
                  => /\ ReplaceAll(lowerBase, "1", "i") \in Range(nameVariations)
                     /\ ReplaceAll(lowerBase, "1", "l") \in Range(nameVariations)

\* the seven replacements of the loop over the base variants
Substitutions ==
    {<<"o","0">>, <<"0","o">>, <<"i","1">>, <<"1","i">>, <<"l","i">>,
     <<"s","5">>, <<"5","s">>}

SubstitutionForms(base) ==
    {ReplaceAll(ToLower(base), p[1], p[2]) : p \in Substitutions}

IndexIn(seq, x) == CHOOSE k \in 1..Len(seq) : seq[k] = x

\* C25: the list generateMedicineNameVariations returns has no duplicates,
\* every element has at least 2 characters and no blank at either end, every
\* element beyond the collected variants is one of the at most 7 substitution
\* forms of one of the first 3 of them, and the elements stand in insertion
\* order, the trimmed name first whenever it has at least 2 characters.
C25_VariationsWellFormed ==
    namePc = "generated"
    => \E collectedBases \in {BaseVariations(Trim(nameIn))} :
       \E bases \in {OcrBases(nameIn)} :
         /\ \A i, j \in 1..Len(nameVariations) :
               i # j => nameVariations[i] # nameVariations[j]
         /\ \A i \in 1..Len(nameVariations) :
               /\ Len(nameVariations[i]) >= 2
               /\ Trim(nameVariations[i]) = nameVariations[i]
               /\ \/ nameVariations[i] \in Range(collectedBases)
                  \/ \E k \in 1..Len(bases) :
                        nameVariations[i] \in SubstitutionForms(bases[k])
         /\ Len(bases) <= 3
         /\ Len(nameVariations) <= Len(collectedBases) + 7 * Len(bases)
         /\ Len(Trim(nameIn)) >= 2 => nameVariations[1] = Trim(nameIn)
         /\ \A i, j \in 1..Len(nameVariations) :
               (i < j /\ nameVariations[j] \in Range(collectedBases))
               => /\ nameVariations[i] \in Range(collectedBases)
                  /\ IndexIn(collectedBases, nameVariations[i])
                        < IndexIn(collectedBases, nameVariations[j])

\* a padded name that is a dosage by itself: one collected variant and two
\* substitution forms of it
C25_Witness ==
    /\ namePc = "generated"
    /\ nameIn = <<" ","0","l">>
    /\ nameVariations = << <<"0","l">>, <<"o","l">>, <<"0","i">> >>

\* the number of the members of S up to x
Rank(S, x) == Cardinality({y \in S : y <= x})

\* the cost of turning a into b when the characters of a at S are kept or
\* substituted, in order, for the characters of b at T, the others of a are
\* deleted and the others of b inserted
AlignmentCost(a, b, S, T) ==
    (Len(a) - Cardinality(S)) + (Len(b) - Cardinality(T))
    + Cardinality({x \in S :
          \E y \in T : Rank(T, y) = Rank(S, x) /\ a[x] # b[y]})

\* the least number of unit-cost inserts, deletes and substitutions
EditDistance(a, b) ==
    CHOOSE d \in 0..(Len(a) + Len(b)) :
        \E costs \in {UNION {{AlignmentCost(a, b, S, T) :
                                  T \in {U \in SUBSET (1..Len(b)) :
                                            Cardinality(U) = Cardinality(S)}} :
                                S \in SUBSET (1..Len(a))}} :
            d \in costs /\ \A c \in costs : d <= c

\* C26: calculateSimilarity applies its rules in priority order to the
\* strings as it compares them (lowercased, trimmed): equal strings give 1.0;
\* otherwise one holding the other gives 0.8 * len(shorter)/len(longer);
\* otherwise max(0, 1 - d/max(len)) with d the least number of unit-cost
\* edits.
C26_RulesInPriorityOrder ==
    simPc = "return"
    => \E a \in {Normal(str1)}, b \in {Normal(str2)} :
          IF a = b THEN simOut = One
          ELSE IF Includes(a, b) \/ Includes(b, a)
          THEN RatEq(simOut, Rat(4 * Min2(Len(a), Len(b)),
                                 5 * Max2(Len(a), Len(b))))
          ELSE RatEq(simOut,
                     RatMax(Zero, Rat(Max2(Len(a), Len(b)) - EditDistance(a, b),
                                      Max2(Len(a), Len(b)))))

\* what the call can return when it runs with no other call in flight
AloneOf(call) ==
    AloneResults(catalog, call.medicineName, call.minSimilarity, call.maxResults,
                 call.includeSalt, call.preferExactMatch)

\* a finished call has returned what it can return by itself: a search its
\* result, a batch one entry for each item, each with the result of a search
\* for that item by itself
ReturnsAsAlone(call) ==
    /\ (call.bpc = "idle" /\ call.pc = "done") => call.result \in AloneOf(call)
    /\ call.bpc = "done"
          => /\ Len(call.results) = Len(call.medicines)
             /\ \A i \in 1..Len(call.results) :
                   /\ call.results[i].original = call.medicines[i]
                   /\ call.results[i].searchResult
                         \in AloneResults(catalog,
                                 call.medicines[i].medicine_name,
                                 call.batchOptions.minSimilarity,
                                 call.batchOptions.maxResults,
                                 call.medicines[i].medicine_salt,
                                 call.batchOptions.preferExactMatch)

\* C27: two calls whose store queries interleave at their awaits share no
\* mutable state: each search returns the result it returns when run by
\* itself on the same catalog, and so does each item of a batch that runs
\* while a search is in flight.
C27_InterleavedAsAlone ==
    /\ ReturnsAsAlone(Locals)
    /\ ReturnsAsAlone(waiting)

\* a search has returned its record while a batch, one item collected and
\* the next one waiting on the store, is still in flight
C27_Witness ==
    /\ bpc = "idle"
    /\ pc = "done"
    /\ result.success
    /\ Len(queryLog) >= 2
    /\ Unfinished(waiting)
    /\ waiting.bpc = "loop"
    /\ waiting.bi = 1
    /\ waiting.pc \in {"exact", "fuzzy", "composition"}
    /\ waiting.results[1].searchResult \in
          AloneResults(catalog, waiting.medicines[1].medicine_name,
                       waiting.batchOptions.minSimilarity,
                       waiting.batchOptions.maxResults,
                       waiting.medicines[1].medicine_salt,
                       waiting.batchOptions.preferExactMatch)

\* C28: lowering the threshold never loses or changes a match: the success
\* returned with minSimilarity = t is returned, with the same record,
\* confidence and matchType, for the same name, options and catalog with
\* every threshold t' <= t, the store answering the same.
C28_LowerThresholdKeepsMatch ==
    (pc = "done" /\ result.success /\ NoQueryFailed)
    => \A lower \in {t \in Thresholds : RatLe(t, minSimilarity)} :
          result \in AloneResults(catalog, medicineName, lower, maxResults,
                                  includeSalt, preferExactMatch)

\* a fuzzy match of confidence under 1 found with a threshold that can be
\* lowered
C28_Witness ==
    /\ pc = "done"
    /\ result.success
    /\ NoQueryFailed
    /\ result.matchType = "fuzzy"
    /\ RatLt(result.confidence, One)
    /\ minSimilarity = Rat(3, 10)

\* no composition query was issued: every candidate comes from the fuzzy
\* brand-name strategy
OnlyFuzzyCandidates ==
    \A k \in 1..Len(queryLog) : queryLog[k].strategy # "composition"

\* the brand name of the candidate equals its variant, ignoring case
EqualsVariant(candidate) ==
    Normal(candidate.medicine.drug_name) = Normal(candidate.searchTerm)

NoWildcard(variant) == ~HasAny(variant, {"%", "_"})

QueriesOf(strategy) ==
    Cardinality({k \in 1..Len(queryLog) : queryLog[k].strategy = strategy})

\* the most queries the resolution of one item can issue
ItemBound(medicine) ==
    IF NameTooShort(medicine.medicine_name) THEN 0
    ELSE 2 * Len(generateMedicineNameVariations(medicine.medicine_name)) + 1

RECURSIVE SumOfBounds(_, _)
SumOfBounds(ms, n) ==
    IF n = 0 THEN 0 ELSE SumOfBounds(ms, n - 1) + ItemBound(ms[n])

\* a call of fuzzySearchMedicine has issued at most V exact queries, at most
\* V fuzzy queries (all V or none once it has returned), at most one
\* composition query, with V <= 26; a batch at most the sum over the items
\* it has come to
QueryBound ==
    /\ Len(variations) <= 26
    /\ bpc = "idle"
          => /\ QueriesOf("exact") <= Len(variations)
             /\ QueriesOf("fuzzy") <= Len(variations)
             /\ pc = "done" => QueriesOf("fuzzy") \in {0, Len(variations)}
             /\ QueriesOf("composition") <= 1
             /\ Len(queryLog) <= 2 * Len(variations) + 1
    /\ bpc # "idle"
          => Len(queryLog) <= SumOfBounds(medicines, Min2(bi + 1, Len(medicines)))

BatchHasReturned ==
    /\ bpc = "done"
    /\ bi = Len(medicines)
    /\ Len(results) = Len(medicines)

\* C30: provided each store query eventually returns or fails, every call of
\* fuzzySearchMedicine eventually returns, after at most 2*V + 1 store queries
\* (V <= 26 variants: at most V exact queries, V fuzzy queries when the fuzzy
\* strategy runs, at most one composition query), and every call of
\* batchFuzzySearch on n items eventually returns after n resolutions.
C30_ReturnsWithinQueryBound ==
    /\ []QueryBound
    /\ (pc = "call") ~> (pc = "done")
    /\ (bpc = "call") ~> BatchHasReturned

\* a resolution that has returned after every query it can issue: V exact
\* queries, V fuzzy queries and the composition query
C30_Witness ==
    /\ bpc = "idle"
    /\ pc = "done"
    /\ Len(variations) >= 2
    /\ QueriesOf("exact") = Len(variations)
    /\ QueriesOf("fuzzy") = Len(variations)
    /\ QueriesOf("composition") = 1
    /\ Len(queryLog) = 2 * Len(variations) + 1

====
